---- MODULE Spec2Model ----
(***************************************************************************)
(* Rescue mission: grid world (map.py), A* pathfinder (a_star.py), drone   *)
(* movement (drone.py) and the mission coordinator                         *)
(* (mission_coordinator.py).                                               *)
(*                                                                         *)
(* Coordinates are <<y, x>> (row, column) as in the source.  Costs are     *)
(* real numbers in the source (floats); here they are integers counted in  *)
(* millionths (SCALE), with sqrt(2) and the Euclidean heuristic taken from *)
(* a table of square roots rounded to the millionth.  Sums of such values  *)
(* order exactly as the reals they stand for on the grids considered.      *)
(* Where the rounding of floats matters (binary64 = TRUE) costs are the    *)
(* IEEE 754 doubles the build computes, each operation rounded to 53 bits. *)
(* Speeds and path progress are counted in 1/SpeedDen of a waypoint.       *)
(***************************************************************************)
EXTENDS Integers, Sequences, FiniteSets, TLC

VARIABLES
    grid,                 \* Map.grid: [cell -> CellType]
    height, width,        \* Map.height, Map.width
    allow_diagonal,       \* AStar.allow_diagonal
    binary64,             \* costs are counted as the floats of the build (TRUE) or exactly (FALSE)
    spawn_point,          \* MissionCoordinator.spawn_point
    detection_radius,     \* MissionCoordinator.detection_radius
    drone_spawn_delay,    \* MissionCoordinator.drone_spawn_delay
    drones,               \* MissionCoordinator.drones: sequence of Drone records
    known_survivors,      \* MissionCoordinator.known_survivors
    discovered_survivors, \* MissionCoordinator.discovered_survivors
    rescued_survivors,    \* MissionCoordinator.rescued_survivors
    all_survivors_in_map, \* MissionCoordinator.all_survivors_in_map
    assignments,          \* MissionCoordinator.assignments: [drone_id -> coord]
    current_time,         \* MissionCoordinator.current_time
    next_spawn_time,      \* MissionCoordinator.next_spawn_time
    drone_id_counter,     \* MissionCoordinator.drone_id_counter
    step_log,             \* the record returned by the last step()
    pheromone,            \* Map.pheromone: [cell -> deposited amount]
    error,                \* TRUE once a call has raised an exception
    spawn_times,          \* history: the clock value at which each drone was created
    table_trace,          \* history: the assignment table after each write of the last step
    advances,             \* history: the number of move_step calls made directly on drones[1]
    trail,                \* history: for each drone, the values its pos has taken, in order
    step_args,            \* history: the arguments of the last step() or assign_target() call
    query                 \* the last find_path call made directly: start, goal, result

world_vars == <<grid, height, width, allow_diagonal, binary64>>
config_vars == <<spawn_point, detection_radius, drone_spawn_delay>>
mission_vars == <<drones, known_survivors, discovered_survivors, rescued_survivors,
                  all_survivors_in_map, assignments, current_time, next_spawn_time,
                  drone_id_counter, step_log, pheromone, error, spawn_times,
                  table_trace, advances, trail, step_args>>
vars == <<world_vars, config_vars, mission_vars, query>>

----------------------------------------------------------------------------
(* Cell classification and the grid world (map.py)                         *)

CellType == {"NORMAL", "OBSTACLE", "DANGER", "SURVIVOR", "DRONE"}

cost_normal == 1
cost_danger == 5
cost_not_walkable == 999999

\* one cost unit, in millionths
SCALE == 1000000

\* square roots of the square-free sums of two squares, in millionths
SqrtMicro == (1 :> 1000000) @@ (2 :> 1414214) @@ (5 :> 2236068) @@ (10 :> 3162278)
          @@ (13 :> 3605551) @@ (17 :> 4123106) @@ (26 :> 5099020) @@ (29 :> 5385165)
          @@ (34 :> 5830952) @@ (37 :> 6082763) @@ (41 :> 6403124) @@ (53 :> 7280110)
          @@ (58 :> 7615773) @@ (61 :> 7810250) @@ (65 :> 8062258)

Abs(n) == IF n < 0 THEN -n ELSE n

\* math.sqrt / math.hypot of an integer n = k*k*m with m square-free
SqrtOf(n) ==
    IF n = 0 THEN 0
    ELSE LET k == CHOOSE j \in 1..n : /\ n % (j * j) = 0
                                      /\ \A i \in (j + 1)..n : n % (i * i) # 0
         IN  k * SqrtMicro[n \div (k * k)]

Cells == (0..(height - 1)) \X (0..(width - 1))

in_bounds(y, x) == 0 <= y /\ y < height /\ 0 <= x /\ x < width

is_walkable(y, x) ==
    IF ~in_bounds(y, x) THEN FALSE
    ELSE grid[<<y, x>>] # "OBSTACLE"

get_cost(y, x) ==
    LET cell == grid[<<y, x>>]
    IN  IF cell = "NORMAL" THEN cost_normal
        ELSE IF cell = "DANGER" THEN cost_danger
        ELSE IF cell \in {"SURVIVOR", "DRONE"} THEN cost_normal
        ELSE cost_not_walkable

list_survivors == {c \in Cells : grid[c] = "SURVIVOR"}

----------------------------------------------------------------------------
(* Floating-point numbers (Python float, IEEE 754 binary64)                *)

\* natural numbers of any size: sequences of limbs below 2^15, least limb
\* first, no zero limb last; <<>> is zero
Limb == 2^15

RECURSIVE BNorm(_)
BNorm(a) == IF Len(a) > 0 /\ a[Len(a)] = 0 THEN BNorm(SubSeq(a, 1, Len(a) - 1)) ELSE a

BLimb(a, i) == IF i <= Len(a) THEN a[i] ELSE 0

BSmall(n) == IF n = 0 THEN <<>> ELSE <<n>>

RECURSIVE BAddFrom(_, _, _, _)
BAddFrom(a, b, i, carry) ==
    IF i > Len(a) /\ i > Len(b) THEN BSmall(carry)
    ELSE LET t == BLimb(a, i) + BLimb(b, i) + carry
         IN  <<t % Limb>> \o BAddFrom(a, b, i + 1, t \div Limb)

BAdd(a, b) == BAddFrom(a, b, 1, 0)

\* a - b for a >= b
RECURSIVE BSubFrom(_, _, _, _)
BSubFrom(a, b, i, borrow) ==
    IF i > Len(a) THEN <<>>
    ELSE LET t == a[i] - BLimb(b, i) - borrow
         IN  <<IF t < 0 THEN t + Limb ELSE t>> \o BSubFrom(a, b, i + 1, IF t < 0 THEN 1 ELSE 0)

BSub(a, b) == BNorm(BSubFrom(a, b, 1, 0))

RECURSIVE BLessFrom(_, _, _)
BLessFrom(a, b, i) ==
    IF i = 0 THEN FALSE
    ELSE IF a[i] # b[i] THEN a[i] < b[i]
    ELSE BLessFrom(a, b, i - 1)

BLess(a, b) == IF Len(a) # Len(b) THEN Len(a) < Len(b) ELSE BLessFrom(a, b, Len(a))

\* a * k for 0 <= k < 2^15
RECURSIVE BMulFrom(_, _, _, _)
BMulFrom(a, k, i, carry) ==
    IF i > Len(a) THEN BSmall(carry)
    ELSE LET t == a[i] * k + carry
         IN  <<t % Limb>> \o BMulFrom(a, k, i + 1, t \div Limb)

BMulSmall(a, k) == BNorm(BMulFrom(a, k, 1, 0))

\* quotient and remainder of a by n, 0 < n < 2^15, from the last limb down
RECURSIVE BDivFrom(_, _, _, _)
BDivFrom(a, n, i, rem) ==
    IF i = 0 THEN [quot |-> <<>>, rem |-> rem]
    ELSE LET t == rem * Limb + a[i]
             rest == BDivFrom(a, n, i - 1, t % n)
         IN  [quot |-> Append(rest.quot, t \div n), rem |-> rest.rem]

BDivSmall(a, n) == BNorm(BDivFrom(a, n, Len(a), 0).quot)

BRemSmall(a, n) == BDivFrom(a, n, Len(a), 0).rem

RECURSIVE BZeros(_)
BZeros(q) == IF q = 0 THEN <<>> ELSE <<0>> \o BZeros(q - 1)

\* a * 2^s and the integer part of a / 2^s
BShiftL(a, s) == IF a = <<>> THEN <<>> ELSE BZeros(s \div 15) \o BMulSmall(a, 2^(s % 15))

BShiftR(a, s) ==
    IF Len(a) <= s \div 15 THEN <<>>
    ELSE BDivSmall(SubSeq(a, (s \div 15) + 1, Len(a)), 2^(s % 15))

\* the number of bits of a
BBitLen(a) ==
    IF a = <<>> THEN 0
    ELSE 15 * (Len(a) - 1) + (CHOOSE k \in 1..15 : 2^(k - 1) <= a[Len(a)] /\ a[Len(a)] < 2^k)

BOdd(a) == a # <<>> /\ a[1] % 2 = 1

\* a rounded to 53 significant bits, to nearest, ties to even; above is
\* TRUE when the number rounded is a little more than a
RoundUp(q, s, rem, half, above) ==
    BShiftL(IF BLess(half, rem) \/ (rem = half /\ (above \/ BOdd(q)))
            THEN BAdd(q, <<1>>) ELSE q, s)

RoundQuot(a, above, s, q) ==
    RoundUp(q, s, BSub(a, BShiftL(q, s)), BShiftL(<<1>>, s - 1), above)

RoundAt(a, above, s) == IF s <= 0 THEN a ELSE RoundQuot(a, above, s, BShiftR(a, s))

Round53(a, above) == RoundAt(a, above, BBitLen(a) - 53)

\* a float is held as the natural number of its 2^-60ths; every float
\* from 2^-8 up is a whole number of them
FloatOf(n) == BShiftL(BSmall(n), 60)

FloatAdd(a, b) == Round53(BAdd(a, b), FALSE)

\* a - b for a >= b
FloatSub(a, b) == Round53(BSub(a, b), FALSE)

\* k * a for an integer 0 <= k < 2^15
FloatMul(k, a) == Round53(BMulSmall(a, k), FALSE)

\* k / n for integers 0 < k, n < 2^15 with k / n >= 2^-8
FloatDiv(k, n) ==
    LET num == BShiftL(BSmall(k), 90)
    IN  BShiftR(Round53(BDivSmall(num, n), BRemSmall(num, n) # 0), 30)

\* the square root bit by bit: root is the root of the bits taken so far,
\* rem what is left of them, left the number of bits still to find
SqrtPick(rem4, trial, root, left) ==
    IF BLess(rem4, trial)
    THEN [rem |-> rem4, root |-> BMulSmall(root, 2), left |-> left - 1]
    ELSE [rem |-> BSub(rem4, trial), root |-> BAdd(BMulSmall(root, 2), <<1>>), left |-> left - 1]

SqrtStep(st) ==
    SqrtPick(BMulSmall(st.rem, 4), BAdd(BMulSmall(st.root, 4), <<1>>), st.root, st.left)

RECURSIVE SqrtLoop(_)
SqrtLoop(st) == IF st.left = 0 THEN st ELSE SqrtLoop(SqrtStep(st))

SqrtRound(st) == Round53(st.root, st.rem # <<>>)

SqrtFrom(n, whole) ==
    SqrtRound(SqrtLoop([rem |-> BSmall(n - whole * whole), root |-> BSmall(whole),
                        left |-> 60]))

\* math.sqrt / math.hypot of an integer 0 <= n < 2^15, correctly rounded:
\* the whole part of the root, then its 60 bits after the point
FloatSqrt(n) == SqrtFrom(n, CHOOSE r \in 0..181 : r * r <= n /\ n < (r + 1) * (r + 1))

\* the arithmetic of costs: floats of the build, or exact millionths
Num(n) == IF binary64 THEN FloatOf(n) ELSE n * SCALE

Plus(a, b) == IF binary64 THEN FloatAdd(a, b) ELSE a + b

Less(a, b) == IF binary64 THEN BLess(a, b) ELSE a < b

\* integer k times a
Times(k, a) == IF binary64 THEN FloatMul(k, a) ELSE k * a

\* math.sqrt(2), computed once
FloatRoot2 == FloatSqrt(2)

\* math.sqrt(n), math.hypot(dy, dx) with n = dy*dy + dx*dx
Sqrt(n) ==
    IF binary64 THEN (IF n = 2 THEN FloatRoot2 ELSE FloatSqrt(n))
    ELSE SqrtOf(n)

----------------------------------------------------------------------------
(* A* pathfinder (a_star.py)                                               *)

\* variant: the delta (-1, 0) is missing, (0, -1) stands twice
orthogonal_NoUp == << <<0, 1>>, <<1, 0>>, <<0, -1>>, <<0, -1>> >>

orthogonal == << <<0, 1>>, <<1, 0>>, <<0, -1>>, <<-1, 0>> >>
diagonals == << <<-1, -1>>, <<-1, 1>>, <<1, -1>>, <<1, 1>> >>

\* move_cost_multiplier: 1.0 for orthogonal, sqrt(2) for diagonal
MultOrthogonal == Num(1)

MultDiagonal == Sqrt(2)

\* variant: the heuristic weighted by the hazard cost
heuristic_Weighted(a, b) ==
    LET dy == Abs(a[1] - b[1])
        dx == Abs(a[2] - b[2])
    IN  IF allow_diagonal THEN Times(cost_danger, Sqrt(dy * dy + dx * dx))
        ELSE Num(cost_danger * (dy + dx))

heuristic(a, b) ==
    LET dy == Abs(a[1] - b[1])
        dx == Abs(a[2] - b[2])
    IN  IF allow_diagonal THEN Sqrt(dy * dy + dx * dx)
        ELSE Num(dy + dx)

\* orthogonal neighbour for delta d of node, as a sequence of 0 or 1 entries
OrthogonalNeighbor(node, d) ==
    LET ny == node[1] + d[1]
        nx == node[2] + d[2]
    IN  IF ~in_bounds(ny, nx) THEN <<>>
        ELSE IF ~is_walkable(ny, nx) THEN <<>>
        ELSE << [node |-> <<ny, nx>>, mult |-> MultOrthogonal] >>

\* variant: diagonal neighbour without the corner test
DiagonalNeighbor_CutCorner(node, d) ==
    LET ny == node[1] + d[1]
        nx == node[2] + d[2]
    IN  IF ~in_bounds(ny, nx) THEN <<>>
        ELSE IF ~is_walkable(ny, nx) THEN <<>>
        ELSE << [node |-> <<ny, nx>>, mult |-> MultDiagonal] >>

\* diagonal neighbour for delta d of node, skipped when it cuts a corner
DiagonalNeighbor(node, d) ==
    LET ny == node[1] + d[1]
        nx == node[2] + d[2]
        adj1 == <<node[1] + d[1], node[2]>>
        adj2 == <<node[1], node[2] + d[2]>>
    IN  IF ~in_bounds(ny, nx) THEN <<>>
        ELSE IF ~is_walkable(ny, nx) THEN <<>>
        ELSE IF /\ in_bounds(adj1[1], adj1[2])
                /\ in_bounds(adj2[1], adj2[2])
                /\ (grid[adj1] = "OBSTACLE" \/ grid[adj2] = "OBSTACLE")
             THEN <<>>
        ELSE << [node |-> <<ny, nx>>, mult |-> MultDiagonal] >>

neighbors(node) ==
    LET orth == OrthogonalNeighbor(node, orthogonal[1]) \o OrthogonalNeighbor(node, orthogonal[2])
                \o OrthogonalNeighbor(node, orthogonal[3]) \o OrthogonalNeighbor(node, orthogonal[4])
        diag == DiagonalNeighbor(node, diagonals[1]) \o DiagonalNeighbor(node, diagonals[2])
                \o DiagonalNeighbor(node, diagonals[3]) \o DiagonalNeighbor(node, diagonals[4])
    IN  IF allow_diagonal THEN orth \o diag ELSE orth

RECURSIVE reconstruct_path(_, _)
reconstruct_path(came_from, current) ==
    IF current \in DOMAIN came_from
    THEN Append(reconstruct_path(came_from, came_from[current]), current)
    ELSE <<current>>

\* find_path's result: None, or (path, total_cost); pops counts the
\* iterations of the search loop
None == [found |-> FALSE, path |-> <<>>, cost |-> 0, pops |-> 0]

\* variant: heap entries compared by f and g only
HeapLess_NoCoordinate(a, b) ==
    \/ Less(a[1], b[1])
    \/ a[1] = b[1] /\ Less(a[2], b[2])

\* tuple order of heap entries <<f, g, node>>
HeapLess(a, b) ==
    \/ Less(a[1], b[1])
    \/ a[1] = b[1] /\ Less(a[2], b[2])
    \/ a[1] = b[1] /\ a[2] = b[2] /\ a[3][1] < b[3][1]
    \/ a[1] = b[1] /\ a[2] = b[2] /\ a[3][1] = b[3][1] /\ a[3][2] < b[3][2]

\* the entries of the open set that no other entry precedes
HeapMins(open_set) == {e \in open_set : \A o \in open_set : ~HeapLess(o, e)}

\* heapq.heappop: the least entry of the open set
HeapMin(open_set) == CHOOSE e \in HeapMins(open_set) : TRUE

\* the body of "for neighbor, move_multiplier in self.neighbors(current)"
\* for one neighbour
RelaxNeighbor(st, current, nb, goal) ==
    IF nb.node \in st.closed THEN st
    ELSE LET cost == Times(get_cost(nb.node[1], nb.node[2]), nb.mult)
             tentative_g == Plus(st.g_score[current], cost)
         IN  IF nb.node \notin DOMAIN st.g_score \/ Less(tentative_g, st.g_score[nb.node])
             THEN [st EXCEPT
                     !.came_from = (nb.node :> current) @@ st.came_from,
                     !.g_score = (nb.node :> tentative_g) @@ st.g_score,
                     !.open_set = st.open_set \cup
                         {<<Plus(tentative_g, heuristic(nb.node, goal)), tentative_g, nb.node>>}]
             ELSE st

RECURSIVE RelaxAll(_, _, _, _, _)
RelaxAll(st, current, nbs, i, goal) ==
    IF i > Len(nbs) THEN st
    ELSE RelaxAll(RelaxNeighbor(st, current, nbs[i], goal), current, nbs, i + 1, goal)

\* one iteration of "while open_set" in which entry e is popped
PopEntry(st, goal, e) ==
    LET current == e[3]
        popped == [st EXCEPT !.open_set = st.open_set \ {e}, !.pops = st.pops + 1]
    IN  IF current \in st.closed THEN popped
        ELSE IF current = goal
             THEN [popped EXCEPT !.done = TRUE,
                                 !.result = [found |-> TRUE,
                                             path |-> reconstruct_path(st.came_from, current),
                                             cost |-> st.g_score[current],
                                             pops |-> popped.pops]]
        ELSE RelaxAll([popped EXCEPT !.closed = st.closed \cup {current}],
                      current, neighbors(current), 1, goal)

\* one iteration of "while open_set"
SearchIter(st, goal) == PopEntry(st, goal, HeapMin(st.open_set))

RECURSIVE SearchLoop(_, _)
SearchLoop(st, goal) ==
    IF st.done THEN st.result
    ELSE IF st.open_set = {} THEN [None EXCEPT !.pops = st.pops]
    ELSE SearchLoop(SearchIter(st, goal), goal)

\* variant: the search starts from the terrain cost of the start cell
find_path_StartCost(start, goal) ==
    IF ~in_bounds(start[1], start[2]) \/ ~in_bounds(goal[1], goal[2]) THEN None
    ELSE IF ~is_walkable(start[1], start[2]) \/ ~is_walkable(goal[1], goal[2]) THEN None
    ELSE SearchLoop([open_set |-> {<<Plus(get_cost(start[1], start[2]), heuristic(start, goal)),
                                     get_cost(start[1], start[2]), start>>},
                     g_score |-> (start :> get_cost(start[1], start[2])),
                     came_from |-> <<>>,
                     closed |-> {},
                     pops |-> 0,
                     done |-> FALSE,
                     result |-> None], goal)

\* variant: the goal is not tested for walkability
find_path_NoGoalCheck(start, goal) ==
    IF ~in_bounds(start[1], start[2]) \/ ~in_bounds(goal[1], goal[2]) THEN None
    ELSE IF ~is_walkable(start[1], start[2]) THEN None
    ELSE SearchLoop([open_set |-> {<<heuristic(start, goal), Num(0), start>>},
                     g_score |-> (start :> Num(0)),
                     came_from |-> <<>>,
                     closed |-> {},
                     pops |-> 0,
                     done |-> FALSE,
                     result |-> None], goal)

find_path(start, goal) ==
    IF ~in_bounds(start[1], start[2]) \/ ~in_bounds(goal[1], goal[2]) THEN None
    ELSE IF ~is_walkable(start[1], start[2]) \/ ~is_walkable(goal[1], goal[2]) THEN None
    ELSE SearchLoop([open_set |-> {<<heuristic(start, goal), Num(0), start>>},
                     g_score |-> (start :> Num(0)),
                     came_from |-> <<>>,
                     closed |-> {},
                     pops |-> 0,
                     done |-> FALSE,
                     result |-> None], goal)

\* the results of the search loop when every pop may take any entry that
\* no other entry precedes in the heap order
RECURSIVE SearchRuns(_, _)
SearchRuns(st, goal) ==
    IF st.done THEN {st.result}
    ELSE IF st.open_set = {} THEN {[None EXCEPT !.pops = st.pops]}
    ELSE UNION {SearchRuns(PopEntry(st, goal, e), goal) : e \in HeapMins(st.open_set)}

\* the results find_path can return over all such runs
find_path_runs(start, goal) ==
    IF ~in_bounds(start[1], start[2]) \/ ~in_bounds(goal[1], goal[2]) THEN {None}
    ELSE IF ~is_walkable(start[1], start[2]) \/ ~is_walkable(goal[1], goal[2]) THEN {None}
    ELSE SearchRuns([open_set |-> {<<heuristic(start, goal), Num(0), start>>},
                     g_score |-> (start :> Num(0)),
                     came_from |-> <<>>,
                     closed |-> {},
                     pops |-> 0,
                     done |-> FALSE,
                     result |-> None], goal)

----------------------------------------------------------------------------
(* Drone (drone.py)                                                        *)

\* exact speeds and path_progress are counted in 1/SpeedDen of a waypoint
SpeedDen == 2

\* 1.0 as a speed or a progress
ONE == IF binary64 THEN FloatOf(1) ELSE SpeedDen

\* a - b for a >= b
Minus(a, b) == IF binary64 THEN FloatSub(a, b) ELSE a - b

\* target is None
NoTarget == <<>>

\* Drone.__init__
Drone(drone_id, start_pos, speed) ==
    [drone_id |-> drone_id,
     pos |-> start_pos,
     speed |-> speed,
     path |-> <<>>,
     target |-> NoTarget,
     path_progress |-> Num(0),
     current_waypoint_idx |-> 0,
     total_distance_traveled |-> Num(0)]

\* variant: the progress made on the previous path is kept
assign_target_KeepProgress(d, target, path) ==
    [d EXCEPT !.target = target,
              !.path = path,
              !.current_waypoint_idx =
                  IF Len(path) > 0 /\ path[1] = d.pos THEN 1 ELSE 0]

\* variant: the first waypoint is never skipped
assign_target_NoSkip(d, target, path) ==
    [d EXCEPT !.target = target,
              !.path = path,
              !.path_progress = Num(0),
              !.current_waypoint_idx = 0]

\* Drone.assign_target; path[0] of the source is path[1] here
assign_target(d, target, path) ==
    [d EXCEPT !.target = target,
              !.path = path,
              !.path_progress = Num(0),
              !.current_waypoint_idx =
                  IF Len(path) > 0 /\ path[1] = d.pos THEN 1 ELSE 0]

\* the loop "while self.path_progress >= 1.0 and idx < len(self.path)";
\* r.visited lists the positions passed to update_knowledge
RECURSIVE MoveLoop(_)
MoveLoop(r) ==
    LET d == r.drone
    IN  IF ~Less(d.path_progress, ONE) /\ d.current_waypoint_idx < Len(d.path)
        THEN LET new_pos == d.path[d.current_waypoint_idx + 1]
                 dy == new_pos[1] - d.pos[1]
                 dx == new_pos[2] - d.pos[2]
                 distance == IF d.pos # new_pos THEN Sqrt(dy * dy + dx * dx) ELSE Num(0)
             IN  MoveLoop([drone |-> [d EXCEPT
                                        !.path_progress = Minus(d.path_progress, ONE),
                                        !.pos = new_pos,
                                        !.current_waypoint_idx = d.current_waypoint_idx + 1,
                                        !.total_distance_traveled =
                                            Plus(d.total_distance_traveled, distance)],
                           visited |-> Append(r.visited, new_pos)])
        ELSE r

\* variant: "if" in place of "while", at most one waypoint per call
move_step_OneHop(d) ==
    IF Len(d.path) = 0 \/ d.current_waypoint_idx >= Len(d.path)
    THEN [drone |-> d, visited |-> <<>>]
    ELSE LET progress == Plus(d.path_progress, d.speed)
             new_pos == d.path[d.current_waypoint_idx + 1]
             dy == new_pos[1] - d.pos[1]
             dx == new_pos[2] - d.pos[2]
             distance == IF d.pos # new_pos THEN Sqrt(dy * dy + dx * dx) ELSE Num(0)
         IN  IF Less(progress, ONE)
             THEN [drone |-> [d EXCEPT !.path_progress = progress], visited |-> <<>>]
             ELSE [drone |-> [d EXCEPT
                                !.path_progress = Minus(progress, ONE),
                                !.pos = new_pos,
                                !.current_waypoint_idx = d.current_waypoint_idx + 1,
                                !.total_distance_traveled =
                                    Plus(d.total_distance_traveled, distance)],
                   visited |-> <<new_pos>>]

\* variant: the call adds the speed to the progress even without a path
\* to follow
move_step_Restless(d) ==
    MoveLoop([drone |-> [d EXCEPT !.path_progress = Plus(d.path_progress, d.speed)],
              visited |-> <<>>])

\* variant: the distance is added once, after the loop, for the last hop
move_step_LastHop(d) ==
    IF Len(d.path) = 0 \/ d.current_waypoint_idx >= Len(d.path)
    THEN [drone |-> d, visited |-> <<>>]
    ELSE LET r == MoveLoop([drone |-> [d EXCEPT !.path_progress = Plus(d.path_progress, d.speed)],
                            visited |-> <<>>])
             n == Len(r.visited)
             prev == IF n > 1 THEN r.visited[n - 1] ELSE d.pos
             dy == r.drone.pos[1] - prev[1]
             dx == r.drone.pos[2] - prev[2]
         IN  IF n = 0 THEN r
             ELSE [r EXCEPT !.drone.total_distance_traveled =
                                Plus(d.total_distance_traveled, Sqrt(dy * dy + dx * dx))]

\* Drone.move_step
move_step(d) ==
    IF Len(d.path) = 0 \/ d.current_waypoint_idx >= Len(d.path)
    THEN [drone |-> d, visited |-> <<>>]
    ELSE MoveLoop([drone |-> [d EXCEPT !.path_progress = Plus(d.path_progress, d.speed)],
                   visited |-> <<>>])

reached_target(d) == d.target # NoTarget /\ d.pos = d.target

\* Drone.update_knowledge / Map.pheromone: one deposit per visited position
RECURSIVE Deposit(_, _, _)
Deposit(ph, visited, i) ==
    IF i > Len(visited) THEN ph
    ELSE Deposit(IF visited[i] \in DOMAIN ph
                 THEN [ph EXCEPT ![visited[i]] = ph[visited[i]] + 1]
                 ELSE ph,
                 visited, i + 1)

----------------------------------------------------------------------------
(* Mission coordinator (mission_coordinator.py)                            *)

Range(f) == {f[k] : k \in DOMAIN f}

Max(a, b) == IF a > b THEN a ELSE b
Min(a, b) == IF a < b THEN a ELSE b

\* coordinates in scan order (row by row), as check_detection visits them
CoordLess(a, b) == a[1] < b[1] \/ (a[1] = b[1] /\ a[2] < b[2])

RECURSIVE ScanOrder(_)
ScanOrder(S) ==
    IF S = {} THEN <<>>
    ELSE LET first == CHOOSE c \in S : \A o \in S : o = c \/ CoordLess(c, o)
         IN  <<first>> \o ScanOrder(S \ {first})

\* path_cost / drone.speed
TimeCost(path_cost, speed) == (path_cost * SpeedDen) \div speed

\* variant: a cell at exactly the detection radius is not sensed
InRadius_Strict(pos, c) ==
    /\ c[1] \in Max(0, pos[1] - detection_radius)..(Min(height, pos[1] + detection_radius + 1) - 1)
    /\ c[2] \in Max(0, pos[2] - detection_radius)..(Min(width, pos[2] + detection_radius + 1) - 1)
    /\ ~(SqrtOf((c[1] - pos[1]) * (c[1] - pos[1]) + (c[2] - pos[2]) * (c[2] - pos[2]))
            >= detection_radius * SCALE)

\* variant: the bounding square without the circular test
InRadius_Square(pos, c) ==
    /\ c[1] \in Max(0, pos[1] - detection_radius)..(Min(height, pos[1] + detection_radius + 1) - 1)
    /\ c[2] \in Max(0, pos[2] - detection_radius)..(Min(width, pos[2] + detection_radius + 1) - 1)

\* the cells check_detection's circular test lets through around pos
InRadius(pos, c) ==
    /\ c[1] \in Max(0, pos[1] - detection_radius)..(Min(height, pos[1] + detection_radius + 1) - 1)
    /\ c[2] \in Max(0, pos[2] - detection_radius)..(Min(width, pos[2] + detection_radius + 1) - 1)
    /\ ~(SqrtOf((c[1] - pos[1]) * (c[1] - pos[1]) + (c[2] - pos[2]) * (c[2] - pos[2]))
            > detection_radius * SCALE)

\* variant: every survivor cell in the radius is reported, whatever the
\* sets already hold
check_detection_NoMemory(m, d) ==
    {c \in Cells : /\ InRadius(d.pos, c)
                   /\ grid[c] = "SURVIVOR"}

\* variant: a position already in known_survivors is discovered again
check_detection_KnownAgain(m, d) ==
    {c \in Cells : /\ InRadius(d.pos, c)
                   /\ c \notin m.discovered
                   /\ c \notin m.rescued
                   /\ grid[c] = "SURVIVOR"}

\* MissionCoordinator.check_detection: the newly discovered positions
check_detection(m, d) ==
    {c \in Cells : /\ InRadius(d.pos, c)
                   /\ c \notin known_survivors
                   /\ c \notin m.discovered
                   /\ c \notin m.rescued
                   /\ grid[c] = "SURVIVOR"}

\* del table[key], when the key is present
Del(table, key) == [k \in DOMAIN table \ {key} |-> table[k]]

\* variant: the entry is not written
Put_Nothing(table, key, value) == table

\* table[key] = value
Put(table, key, value) == (key :> value) @@ table

\* variant: the table entry of the rescuer is kept
check_rescue_KeepEntry(m, i) ==
    LET d == m.drones[i]
    IN  IF d.target # NoTarget /\ d.pos = d.target
        THEN [m EXCEPT !.rescued = m.rescued \cup {d.target},
                       !.drones[i] = [d EXCEPT !.target = NoTarget, !.path = <<>>],
                       !.log.rescued = Append(m.log.rescued, <<d.drone_id, d.pos>>)]
        ELSE m

\* variant: a drone standing on a revealed target that is not its own
\* rescues it as well
check_rescue_Standing(m, i) ==
    LET d == m.drones[i]
    IN  IF d.target # NoTarget /\ d.pos = d.target
        THEN [m EXCEPT !.rescued = m.rescued \cup {d.target},
                       !.assignments = Del(m.assignments, d.drone_id),
                       !.tables = Append(m.tables, Del(m.assignments, d.drone_id)),
                       !.drones[i] = [d EXCEPT !.target = NoTarget, !.path = <<>>],
                       !.log.rescued = Append(m.log.rescued, <<d.drone_id, d.pos>>)]
        ELSE IF d.pos \in (known_survivors \cup m.discovered) \ m.rescued
        THEN [m EXCEPT !.rescued = m.rescued \cup {d.pos}]
        ELSE m

\* variant: a rescued target is moved out of Discovered
check_rescue_Moving(m, i) ==
    LET d == m.drones[i]
    IN  IF d.target # NoTarget /\ d.pos = d.target
        THEN [m EXCEPT !.rescued = m.rescued \cup {d.target},
                       !.discovered = m.discovered \ {d.target},
                       !.assignments = Del(m.assignments, d.drone_id),
                       !.tables = Append(m.tables, Del(m.assignments, d.drone_id)),
                       !.drones[i] = [d EXCEPT !.target = NoTarget, !.path = <<>>],
                       !.log.rescued = Append(m.log.rescued, <<d.drone_id, d.pos>>)]
        ELSE m

\* variant: the cell of a rescued survivor is cleared
check_rescue_Clearing(m, i) ==
    LET d == m.drones[i]
    IN  IF d.target # NoTarget /\ d.pos = d.target
        THEN [m EXCEPT !.rescued = m.rescued \cup {d.target},
                       !.cells = [c \in DOMAIN m.cells |->
                                     IF c = d.target THEN "NORMAL" ELSE m.cells[c]],
                       !.assignments = Del(m.assignments, d.drone_id),
                       !.tables = Append(m.tables, Del(m.assignments, d.drone_id)),
                       !.drones[i] = [d EXCEPT !.target = NoTarget, !.path = <<>>],
                       !.log.rescued = Append(m.log.rescued, <<d.drone_id, d.pos>>)]
        ELSE m

\* MissionCoordinator.check_rescue
check_rescue(m, i) ==
    LET d == m.drones[i]
    IN  IF d.target # NoTarget /\ d.pos = d.target
        THEN [m EXCEPT !.rescued = m.rescued \cup {d.target},
                       !.assignments = Del(m.assignments, d.drone_id),
                       !.tables = Append(m.tables, Del(m.assignments, d.drone_id)),
                       !.drones[i] = [d EXCEPT !.target = NoTarget, !.path = <<>>],
                       !.log.rescued = Append(m.log.rescued, <<d.drone_id, d.pos>>)]
        ELSE m

\* step(), phases 2-4: move, detect and rescue-check drone i, then the next
RECURSIVE MoveAll(_, _)
\* variant: drone i senses around the position it had before its move
MoveAll_SenseFirst(m, i) ==
    IF i > Len(m.drones) THEN m
    ELSE LET old == m.drones[i]
             mv == move_step(old)
             m1 == [m EXCEPT !.drones[i] = mv.drone,
                             !.trails[i] = m.trails[i] \o mv.visited,
                             !.pheromone = Deposit(m.pheromone, mv.visited, 1),
                             !.log.moved = IF old.pos # mv.drone.pos
                                           THEN Append(m.log.moved,
                                                       <<old.drone_id, old.pos, mv.drone.pos>>)
                                           ELSE m.log.moved]
             found == check_detection(m1, old)
             m2 == [m1 EXCEPT !.discovered = m1.discovered \cup found,
                              !.log.discovered = m1.log.discovered \o ScanOrder(found)]
         IN  MoveAll(check_rescue(m2, i), i + 1)

MoveAll(m, i) ==
    IF i > Len(m.drones) THEN m
    ELSE LET old == m.drones[i]
             mv == move_step(old)
             m1 == [m EXCEPT !.drones[i] = mv.drone,
                             !.trails[i] = m.trails[i] \o mv.visited,
                             !.pheromone = Deposit(m.pheromone, mv.visited, 1),
                             !.log.moved = IF old.pos # mv.drone.pos
                                           THEN Append(m.log.moved,
                                                       <<old.drone_id, old.pos, mv.drone.pos>>)
                                           ELSE m.log.moved]
             found == check_detection(m1, mv.drone)
             m2 == [m1 EXCEPT !.discovered = m1.discovered \cup found,
                              !.log.discovered = m1.log.discovered \o ScanOrder(found)]
         IN  MoveAll(check_rescue(m2, i), i + 1)

\* (known | discovered) - rescued - set(assignments.values())
Unassigned(m) ==
    ((known_survivors \cup m.discovered) \ m.rescued) \ Range(m.assignments)

\* variant: any cheaper candidate is taken, not only one under half the cost
ReassignDrone_AnyCheaper(r, i) ==
    LET m == r.m
        d == m.drones[i]
    IN  IF d.target = NoTarget \/ reached_target(d) THEN {r}
        ELSE LET current_result == find_path(d.pos, d.target)
             IN  IF ~current_result.found THEN {r}
                 ELSE LET current_cost == TimeCost(current_result.cost, d.speed)
                          new_result == [s \in r.unassigned |-> find_path(d.pos, s)]
                          better == {s \in r.unassigned :
                                       /\ new_result[s].found
                                       /\ TimeCost(new_result[s].cost, d.speed) < current_cost}
                      IN  IF better = {} THEN {r}
                          ELSE {[m |-> [m EXCEPT
                                          !.error = m.error \/ d.drone_id \notin DOMAIN m.assignments,
                                          !.drones[i] = assign_target(d, s, new_result[s].path),
                                          !.assignments = Put(m.assignments, d.drone_id, s),
                                          !.tables = m.tables \o
                                              <<Del(m.assignments, d.drone_id),
                                                Put(m.assignments, d.drone_id, s)>>],
                                 unassigned |-> r.unassigned \ {s}] : s \in better}

\* reassign_drones, the body of "for drone in self.drones" for drone i:
\* the set of possible outcomes.  The source takes the first candidate, in
\* the iteration order of a set, whose cost is under half the current
\* cost; that order is not fixed, so any such candidate may be taken.
ReassignDrone(r, i) ==
    LET m == r.m
        d == m.drones[i]
    IN  IF d.target = NoTarget \/ reached_target(d) THEN {r}
        ELSE LET current_result == find_path(d.pos, d.target)
             IN  IF ~current_result.found THEN {r}
                 ELSE LET current_cost == TimeCost(current_result.cost, d.speed)
                          new_result == [s \in r.unassigned |-> find_path(d.pos, s)]
                          better == {s \in r.unassigned :
                                       /\ new_result[s].found
                                       /\ 2 * TimeCost(new_result[s].cost, d.speed) < current_cost}
                      IN  IF better = {} THEN {r}
                          ELSE {[m |-> [m EXCEPT
                                          !.error = m.error \/ d.drone_id \notin DOMAIN m.assignments,
                                          !.drones[i] = assign_target(d, s, new_result[s].path),
                                          !.assignments = Put(m.assignments, d.drone_id, s),
                                          !.tables = m.tables \o
                                              <<Del(m.assignments, d.drone_id),
                                                Put(m.assignments, d.drone_id, s)>>],
                                 unassigned |-> r.unassigned \ {s}] : s \in better}

RECURSIVE ReassignAll(_, _)
ReassignAll(rs, i) ==
    IF \A r \in rs : i > Len(r.m.drones) THEN rs
    ELSE ReassignAll(UNION {ReassignDrone(r, i) : r \in rs}, i + 1)

\* MissionCoordinator.reassign_drones: the set of possible resulting states
reassign_drones(m) ==
    IF Unassigned(m) = {} THEN {m}
    ELSE {r.m : r \in ReassignAll({[m |-> m, unassigned |-> Unassigned(m)]}, 1)}

\* MissionCoordinator.replan_if_needed
replan_if_needed(m) ==
    IF Unassigned(m) # {} THEN reassign_drones(m) ELSE {m}

\* variant: a survivor already in the table is not skipped
Claimed_Never(m, survivor) == FALSE

\* "if survivor in self.assignments.values(): continue"
Claimed(m, survivor) == survivor \in Range(m.assignments)

\* variant: a survivor without a path is not skipped
Skipped_Never(result) == FALSE

\* "if result is None: continue"
Skipped(result) == ~result.found

\* variant: the cheapest survivor is chosen among all candidates and
\* dropped when it is already in the table
AssignDrone_ClaimedLast(r, i, available_survivors) ==
    LET m == r.m
        d == m.drones[i]
        result == [s \in available_survivors |-> find_path(d.pos, s)]
        reachable == {s \in available_survivors : ~Skipped(result[s])}
        time_cost == [s \in reachable |-> TimeCost(result[s].cost, d.speed)]
        best == {s \in reachable : \A o \in reachable : ~(time_cost[o] < time_cost[s])}
    IN  IF reachable = {} \/ \E s \in best : Claimed(m, s) THEN {r}
        ELSE {[m |-> [m EXCEPT !.drones[i] = assign_target(d, s, result[s].path),
                               !.assignments = Put(m.assignments, d.drone_id, s),
                               !.tables = Append(m.tables, Put(m.assignments, d.drone_id, s))],
               made |-> Append(r.made, <<d.drone_id, s, time_cost[s]>>)] : s \in best}

\* variant: any reachable candidate is taken, not a cheapest one
AssignDrone_FirstFound(r, i, available_survivors) ==
    LET m == r.m
        d == m.drones[i]
        free == {s \in available_survivors : ~Claimed(m, s)}
        result == [s \in free |-> find_path(d.pos, s)]
        reachable == {s \in free : ~Skipped(result[s])}
        time_cost == [s \in reachable |-> TimeCost(result[s].cost, d.speed)]
        best == reachable
    IN  IF reachable = {} THEN {r}
        ELSE {[m |-> [m EXCEPT !.drones[i] = assign_target(d, s, result[s].path),
                               !.assignments = Put(m.assignments, d.drone_id, s),
                               !.tables = Append(m.tables, Put(m.assignments, d.drone_id, s))],
               made |-> Append(r.made, <<d.drone_id, s, time_cost[s]>>)] : s \in best}

\* assign_tasks, the body of "for drone in available_drones" for drone i:
\* the set of possible outcomes.  Among survivors of equal least cost the
\* source keeps the first in the iteration order of a set, so any may win.
AssignDrone(r, i, available_survivors) ==
    LET m == r.m
        d == m.drones[i]
        free == {s \in available_survivors : ~Claimed(m, s)}
        result == [s \in free |-> find_path(d.pos, s)]
        reachable == {s \in free : ~Skipped(result[s])}
        time_cost == [s \in reachable |-> TimeCost(result[s].cost, d.speed)]
        best == {s \in reachable : \A o \in reachable : ~(time_cost[o] < time_cost[s])}
    IN  IF reachable = {} THEN {r}
        ELSE {[m |-> [m EXCEPT !.drones[i] = assign_target(d, s, result[s].path),
                               !.assignments = Put(m.assignments, d.drone_id, s),
                               !.tables = Append(m.tables, Put(m.assignments, d.drone_id, s))],
               made |-> Append(r.made, <<d.drone_id, s, time_cost[s]>>)] : s \in best}

RECURSIVE AssignAll(_, _, _, _)
AssignAll(rs, i, available_drones, available_survivors) ==
    IF \A r \in rs : i > Len(r.m.drones) THEN rs
    ELSE AssignAll(IF i \in available_drones
                   THEN UNION {AssignDrone(r, i, available_survivors) : r \in rs}
                   ELSE rs,
                   i + 1, available_drones, available_survivors)

\* variant: the candidates are drawn from all_survivors_in_map as well
AvailableSurvivors_All(m) ==
    (known_survivors \cup m.discovered \cup all_survivors_in_map) \ m.rescued

\* available_survivors = (known | discovered) - rescued
AvailableSurvivors(m) == (known_survivors \cup m.discovered) \ m.rescued

\* variant: a drone that never had a target is not available
assign_tasks_RescuedOnly(m) ==
    LET available_survivors == AvailableSurvivors(m)
        available_drones == {i \in 1..Len(m.drones) : m.drones[i].target \in m.rescued}
    IN  IF available_survivors = {} \/ available_drones = {}
        THEN {[m |-> m, made |-> <<>>]}
        ELSE AssignAll({[m |-> m, made |-> <<>>]}, 1, available_drones, available_survivors)

\* MissionCoordinator.assign_tasks: the set of possible (state, returned list)
assign_tasks(m) ==
    LET available_survivors == AvailableSurvivors(m)
        available_drones == {i \in 1..Len(m.drones) :
                               \/ m.drones[i].target = NoTarget
                               \/ m.drones[i].target \in m.rescued}
    IN  IF available_survivors = {} \/ available_drones = {}
        THEN {[m |-> m, made |-> <<>>]}
        ELSE AssignAll({[m |-> m, made |-> <<>>]}, 1, available_drones, available_survivors)

\* variant: the id counter is not advanced
spawn_drone_SameId(m, speed) ==
    [m EXCEPT !.drones = Append(m.drones, Drone(m.drone_id_counter, spawn_point, speed)),
              !.trails = Append(m.trails, <<spawn_point>>)]

\* variant: the drone is created with the default speed 1.0
spawn_drone_DefaultSpeed(m, speed) ==
    [m EXCEPT !.drones = Append(m.drones, Drone(m.drone_id_counter, spawn_point, SpeedDen)),
              !.trails = Append(m.trails, <<spawn_point>>),
              !.drone_id_counter = m.drone_id_counter + 1]

\* MissionCoordinator.spawn_drone
spawn_drone(m, speed) ==
    [m EXCEPT !.drones = Append(m.drones, Drone(m.drone_id_counter, spawn_point, speed)),
              !.trails = Append(m.trails, <<spawn_point>>),
              !.drone_id_counter = m.drone_id_counter + 1]

\* variant: completion counts every survivor of the map
is_mission_complete_All ==
    Cardinality(rescued_survivors) >= Cardinality(all_survivors_in_map)

\* MissionCoordinator.is_mission_complete
is_mission_complete ==
    Cardinality(rescued_survivors) >= Cardinality(known_survivors \cup discovered_survivors)

\* variant: the total counts the survivors known from the start only
get_status_KnownOnly ==
    [time |-> current_time,
     drones_deployed |-> Len(drones),
     known_survivors |-> Cardinality(known_survivors),
     discovered_survivors |-> Cardinality(discovered_survivors),
     rescued_survivors |-> Cardinality(rescued_survivors),
     total_survivors |-> Cardinality(known_survivors),
     remaining_survivors |-> Cardinality(known_survivors) - Cardinality(rescued_survivors),
     active_assignments |-> Cardinality(DOMAIN assignments)]

\* MissionCoordinator.get_status
get_status ==
    [time |-> current_time,
     drones_deployed |-> Len(drones),
     known_survivors |-> Cardinality(known_survivors),
     discovered_survivors |-> Cardinality(discovered_survivors),
     rescued_survivors |-> Cardinality(rescued_survivors),
     total_survivors |-> Cardinality(known_survivors \cup discovered_survivors),
     remaining_survivors |-> Cardinality(known_survivors \cup discovered_survivors)
                                - Cardinality(rescued_survivors),
     active_assignments |-> Cardinality(DOMAIN assignments)]

\* the coordinator's mutable fields, gathered for the operators above
Mission ==
    [drones |-> drones,
     discovered |-> discovered_survivors,
     rescued |-> rescued_survivors,
     assignments |-> assignments,
     drone_id_counter |-> drone_id_counter,
     next_spawn_time |-> next_spawn_time,
     pheromone |-> pheromone,
     error |-> error,
     tables |-> <<>>,
     trails |-> trail,
     cells |-> grid,
     log |-> [time |-> current_time, spawned |-> <<>>, moved |-> <<>>,
              discovered |-> <<>>, rescued |-> <<>>, assigned |-> <<>>]]

\* variant: a spawn advances the threshold from its previous value
StepOutcomes_FromThreshold(spawn_new_drone, new_drone_speed) ==
    LET m0 == Mission
        m1 == IF spawn_new_drone /\ current_time >= next_spawn_time
              THEN [spawn_drone(m0, new_drone_speed) EXCEPT
                       !.next_spawn_time = next_spawn_time + drone_spawn_delay,
                       !.log.spawned = <<m0.drone_id_counter>>]
              ELSE m0
        replanned == UNION {IF Len(m2.log.discovered) > 0 THEN replan_if_needed(m2) ELSE {m2} :
                               m2 \in {MoveAll(m1, 1)}}
    IN  {[r.m EXCEPT !.log.assigned = r.made] :
            r \in UNION {assign_tasks(m3) : m3 \in replanned}}

\* variant: the reassignment pass runs in every step
StepOutcomes_AlwaysReplan(spawn_new_drone, new_drone_speed) ==
    LET m0 == Mission
        m1 == IF spawn_new_drone /\ current_time >= next_spawn_time
              THEN [spawn_drone(m0, new_drone_speed) EXCEPT
                       !.next_spawn_time = current_time + drone_spawn_delay,
                       !.log.spawned = <<m0.drone_id_counter>>]
              ELSE m0
        replanned == UNION {replan_if_needed(m2) :
                               m2 \in {MoveAll(m1, 1)}}
    IN  {[r.m EXCEPT !.log.assigned = r.made] :
            r \in UNION {assign_tasks(m3) : m3 \in replanned}}

\* step(), phases 1-6: the set of possible states after the step
StepOutcomes(spawn_new_drone, new_drone_speed) ==
    LET m0 == Mission
        m1 == IF spawn_new_drone /\ current_time >= next_spawn_time
              THEN [spawn_drone(m0, new_drone_speed) EXCEPT
                       !.next_spawn_time = current_time + drone_spawn_delay,
                       !.log.spawned = <<m0.drone_id_counter>>]
              ELSE m0
        replanned == UNION {IF Len(m2.log.discovered) > 0 THEN replan_if_needed(m2) ELSE {m2} :
                               m2 \in {MoveAll(m1, 1)}}
    IN  {[r.m EXCEPT !.log.assigned = r.made] :
            r \in UNION {assign_tasks(m3) : m3 \in replanned}}

----------------------------------------------------------------------------
(* Missions considered                                                     *)

MaxTime == 6
MaxDrones == 2

\* speeds a caller may pass, in 1/SpeedDen: 0.5, 1.0 and 3.0
Speeds == {1, 2, 6}

N == "NORMAL"
O == "OBSTACLE"
D == "DANGER"
S == "SURVIVOR"

\* 5x5, all free
OpenRows == << <<N, N, N, N, N>>,
               <<N, N, N, N, N>>,
               <<N, N, N, N, N>>,
               <<N, N, N, N, N>>,
               <<N, N, N, N, N>> >>

\* a survivor at (1,2) beside the way from (0,0) to (0,5)
HiddenRows == << <<N, N, N, N, N, S>>,
                 <<N, O, S, D, N, N>>,
                 <<S, N, N, N, N, N>> >>

\* corners to cut, and a survivor at (2,2)
DiagRows == << <<N, N, O, N>>,
               <<N, O, N, N>>,
               <<N, N, S, D>>,
               <<S, N, D, S>> >>

\* the survivor at (0,3) is enclosed by obstacles
WalledRows == << <<N, N, O, S>>,
                 <<N, D, O, O>>,
                 <<N, S, N, N>>,
                 <<N, N, N, S>> >>

\* survivors at (0,1), within the radius of (0,0), and at (0,2), within
\* the radius of (0,1) only; none of them known
NearRows == << <<N, S, S>>,
              <<N, N, N>> >>

Scenarios ==
    { [rows |-> OpenRows, diag |-> FALSE, spawn |-> <<0, 0>>, radius |-> 1, delay |-> 5,
       knowns |-> {{<<0, 4>>}}],
      [rows |-> NearRows, diag |-> FALSE, spawn |-> <<0, 0>>, radius |-> 1, delay |-> 2,
       knowns |-> {{}}],
      [rows |-> HiddenRows, diag |-> FALSE, spawn |-> <<0, 0>>, radius |-> 1, delay |-> 2,
       knowns |-> {{<<0, 5>>}, {<<0, 5>>, <<2, 0>>}}],
      [rows |-> DiagRows, diag |-> TRUE, spawn |-> <<0, 0>>, radius |-> 2, delay |-> 3,
       knowns |-> {{}, {<<3, 3>>}, {<<3, 0>>, <<3, 3>>}}],
      [rows |-> WalledRows, diag |-> TRUE, spawn |-> <<0, 0>>, radius |-> 1, delay |-> 2,
       knowns |-> {{<<0, 3>>, <<2, 1>>}, {<<3, 3>>, <<0, 2>>, <<4, 4>>}}],
      \* spawn points on an obstacle, inside the enclosure and out of bounds
      [rows |-> WalledRows, diag |-> TRUE, spawn |-> <<0, 2>>, radius |-> 1, delay |-> 2,
       knowns |-> {{<<0, 3>>, <<2, 1>>}}],
      [rows |-> WalledRows, diag |-> TRUE, spawn |-> <<0, 3>>, radius |-> 1, delay |-> 2,
       knowns |-> {{<<0, 3>>, <<2, 1>>}}],
      [rows |-> WalledRows, diag |-> TRUE, spawn |-> <<-1, 0>>, radius |-> 2, delay |-> 2,
       knowns |-> {{<<0, 3>>, <<2, 1>>}}] }

GridOf(rows) ==
    [c \in (0..(Len(rows) - 1)) \X (0..(Len(rows[1]) - 1)) |-> rows[c[1] + 1][c[2] + 1]]

NoQuery == [called |-> FALSE, start |-> <<>>, goal |-> <<>>, result |-> None]

NoLog == [time |-> -1, spawned |-> <<>>, moved |-> <<>>,
          discovered |-> <<>>, rescued |-> <<>>, assigned |-> <<>>]

\* no step() call has been made
NoArgs == [spawn_new_drone |-> FALSE, new_drone_speed |-> 0]

\* MissionCoordinator.__init__, then initialize_mission and set_all_survivors
InitMission(known) ==
    /\ drones = <<>>
    /\ known_survivors = known
    /\ rescued_survivors = {}
    /\ discovered_survivors = {}
    /\ all_survivors_in_map = list_survivors
    /\ assignments = <<>>
    /\ current_time = 0
    /\ next_spawn_time = 0
    /\ drone_id_counter = 0
    /\ step_log = NoLog
    /\ pheromone = [c \in Cells |-> 0]
    /\ error = FALSE
    /\ spawn_times = <<>>
    /\ table_trace = <<>>
    /\ advances = 0
    /\ trail = <<>>
    /\ step_args = NoArgs

Init ==
    \E sc \in Scenarios : \E known \in sc.knowns :
        /\ grid = GridOf(sc.rows)
        /\ height = Len(sc.rows)
        /\ width = Len(sc.rows[1])
        /\ allow_diagonal = sc.diag
        /\ binary64 = FALSE
        /\ spawn_point = sc.spawn
        /\ detection_radius = sc.radius
        /\ drone_spawn_delay = sc.delay
        /\ InitMission(known)
        /\ query = NoQuery

\* a call of spawn_drone(speed) by the caller, outside step(); callers
\* deploy drones this way before the first step only
SpawnDrone ==
    \E speed \in Speeds :
        /\ ~error
        /\ current_time = 0
        /\ Len(drones) < MaxDrones
        /\ LET m == spawn_drone(Mission, speed)
           IN  /\ drones' = m.drones
               /\ drone_id_counter' = m.drone_id_counter
               /\ trail' = m.trails
        /\ spawn_times' = Append(spawn_times, current_time)
        /\ UNCHANGED <<world_vars, config_vars, known_survivors, discovered_survivors,
                       rescued_survivors, all_survivors_in_map, assignments, current_time,
                       next_spawn_time, step_log, pheromone, error, table_trace, advances,
                       step_args, query>>

\* new_drone_speed: float = 1.0
DefaultSpeed == SpeedDen

\* a call of step(spawn_new_drone, new_drone_speed) with the flag drawn
\* from flags, while the clock is below limit; the speed is passed when a
\* drone is asked for
StepWith(flags, limit) ==
    \E spawn_new_drone \in flags :
    \E new_drone_speed \in (IF spawn_new_drone THEN Speeds ELSE {DefaultSpeed}) :
        /\ ~error
        /\ current_time < limit
        /\ spawn_new_drone => Len(drones) < MaxDrones
        /\ \E m \in StepOutcomes(spawn_new_drone, new_drone_speed) :
            /\ drones' = m.drones
            /\ discovered_survivors' = m.discovered
            /\ rescued_survivors' = m.rescued
            /\ assignments' = m.assignments
            /\ drone_id_counter' = m.drone_id_counter
            /\ next_spawn_time' = m.next_spawn_time
            /\ pheromone' = m.pheromone
            /\ error' = m.error
            /\ step_log' = m.log
            /\ table_trace' = m.tables
            /\ trail' = m.trails
            /\ grid' = m.cells
            /\ step_args' = [spawn_new_drone |-> spawn_new_drone,
                             new_drone_speed |-> new_drone_speed]
            /\ spawn_times' = IF Len(m.drones) > Len(drones)
                              THEN Append(spawn_times, current_time)
                              ELSE spawn_times
            /\ current_time' = IF m.error THEN current_time ELSE current_time + 1
        /\ UNCHANGED <<height, width, allow_diagonal, binary64, config_vars,
                       known_survivors, all_survivors_in_map, advances, query>>

Step == StepWith(BOOLEAN, MaxTime)

Next == Step \/ SpawnDrone

Spec == Init /\ [][Next]_vars

----------------------------------------------------------------------------
(* Missions whose drones are all created by step()                         *)

NextSteps == Step

SpecSteps == Init /\ [][NextSteps]_vars

----------------------------------------------------------------------------
(* Missions stepped until the clock reaches MaxLiveTime                    *)

MaxLiveTime == 30

\* the flags of a caller that asks for a drone on the first step, decides
\* on the second step whether it goes on asking, and keeps to that while
\* fewer than MaxDrones drones are deployed
LiveFlags ==
    IF current_time = 0 THEN {TRUE}
    ELSE IF Len(drones) >= MaxDrones THEN {FALSE}
    ELSE IF current_time = 1 THEN BOOLEAN
    ELSE {step_args.spawn_new_drone}

StepLive == StepWith(LiveFlags, MaxLiveTime)

NextLive == StepLive

\* a step() call that returns: the only change of the clock
StepReturns ==
    /\ ~error
    /\ current_time < MaxLiveTime
    /\ current_time' = current_time + 1

\* step() is called again and again
SpecLive == Init /\ [][NextLive]_vars /\ WF_current_time(StepReturns)

----------------------------------------------------------------------------
(* Direct calls of the pathfinder                                          *)

PathH == 2
PathW == 3

PathCells == (0..(PathH - 1)) \X (0..(PathW - 1))

\* every grid of PathH x PathW cells with at most two obstacles and at
\* most one hazard, the other cells free
PathGrids ==
    UNION {{[c \in PathCells |-> IF c \in os THEN O ELSE IF c \in hs THEN D ELSE N] :
               hs \in {h \in SUBSET (PathCells \ os) : Cardinality(h) <= 1}} :
           os \in {o \in SUBSET PathCells : Cardinality(o) <= 2}}

\* starts: two corners of the first row, the cell (1,1) and a coordinate
\* out of bounds
QueryStarts == {<<0, 0>>, <<0, PathW - 1>>, <<1, 1>>, <<-1, 0>>}

\* goals: every cell, and a coordinate out of bounds on either side
QueryGoals == PathCells \cup {<<-1, 0>>, <<PathH - 1, PathW>>}

InitPath ==
    /\ grid \in PathGrids
    /\ height = PathH
    /\ width = PathW
    /\ allow_diagonal \in BOOLEAN
    /\ binary64 = FALSE
    /\ spawn_point = <<0, 0>>
    /\ detection_radius = 1
    /\ drone_spawn_delay = 1
    /\ InitMission({})
    /\ query = NoQuery

\* one call of AStar.find_path(start, goal)
FindPathCall ==
    \E start \in QueryStarts : \E goal \in QueryGoals :
        /\ ~query.called
        /\ query' = [called |-> TRUE, start |-> start, goal |-> goal,
                     result |-> find_path(start, goal)]
        /\ UNCHANGED <<world_vars, config_vars, mission_vars>>

NextPath == FindPathCall

SpecPath == InitPath /\ [][NextPath]_vars

----------------------------------------------------------------------------
(* Calls of the pathfinder across large free grids, in the floats of the   *)
(* build                                                                   *)

MaxSide == 31

\* a free square grid of any side up to MaxSide
InitFar ==
    \E side \in 1..MaxSide :
        /\ grid = [c \in (0..(side - 1)) \X (0..(side - 1)) |-> N]
        /\ height = side
        /\ width = side
        /\ allow_diagonal = TRUE
        /\ binary64 = TRUE
        /\ spawn_point = <<0, 0>>
        /\ detection_radius = 1
        /\ drone_spawn_delay = 1
        /\ InitMission({})
        /\ query = NoQuery

\* goals: the other three corners
FarGoals == {<<height - 1, width - 1>>, <<height - 1, 0>>, <<0, width - 1>>}

\* one call of AStar.find_path((0, 0), goal)
FindPathFar ==
    \E goal \in FarGoals :
        /\ ~query.called
        /\ query' = [called |-> TRUE, start |-> <<0, 0>>, goal |-> goal,
                     result |-> find_path(<<0, 0>>, goal)]
        /\ UNCHANGED <<world_vars, config_vars, mission_vars>>

NextFar == FindPathFar

SpecFar == InitFar /\ [][NextFar]_vars

----------------------------------------------------------------------------
(* Direct calls of Drone.move_step, in the floats of the build             *)

MaxPathLen == 5
MaxSpeed == 3
MaxSlow == 6

\* the speeds k and 1/n
MoveSpeeds == {FloatOf(k) : k \in 1..MaxSpeed} \cup {FloatDiv(1, n) : n \in 2..MaxSlow}

\* the path of len cells from (0,0) along the first row, or down the diagonal
RowPath(len) == [i \in 1..len |-> <<0, i - 1>>]
DiagPath(len) == [i \in 1..len |-> <<i - 1, i - 1>>]

\* a drone at (0,0) is given a path: from its position, or from the cell after
InitMove ==
    \E len \in 2..MaxPathLen : \E speed \in MoveSpeeds :
    \E whole \in {RowPath(len), DiagPath(len)} : \E from_pos \in BOOLEAN :
        /\ grid = [c \in (0..(MaxPathLen - 1)) \X (0..(MaxPathLen - 1)) |-> N]
        /\ height = MaxPathLen
        /\ width = MaxPathLen
        /\ allow_diagonal = TRUE
        /\ binary64 = TRUE
        /\ spawn_point = <<0, 0>>
        /\ detection_radius = 1
        /\ drone_spawn_delay = 1
        /\ known_survivors = {}
        /\ rescued_survivors = {}
        /\ discovered_survivors = {}
        /\ all_survivors_in_map = {}
        /\ assignments = <<>>
        /\ current_time = 0
        /\ next_spawn_time = 0
        /\ drone_id_counter = 1
        /\ step_log = NoLog
        /\ pheromone = [c \in Cells |-> 0]
        /\ error = FALSE
        /\ spawn_times = <<0>>
        /\ table_trace = <<>>
        /\ advances = 0
        /\ trail = << <<spawn_point>> >>
        /\ step_args = NoArgs
        /\ drones = <<assign_target(Drone(0, <<0, 0>>, speed), whole[len],
                                    IF from_pos THEN whole ELSE SubSeq(whole, 2, len))>>
        /\ query = NoQuery

\* enough calls for the slowest drone to end the longest path
MaxAdvances == MaxSlow * (MaxPathLen - 1) + 2

\* one call of drones[1].move_step()
MoveStepCall ==
    /\ advances < MaxAdvances
    /\ LET mv == move_step(drones[1])
       IN  /\ drones' = <<mv.drone>>
           /\ pheromone' = Deposit(pheromone, mv.visited, 1)
           /\ trail' = <<trail[1] \o mv.visited>>
    /\ advances' = advances + 1
    /\ UNCHANGED <<world_vars, config_vars, known_survivors, discovered_survivors,
                   rescued_survivors, all_survivors_in_map, assignments, current_time,
                   next_spawn_time, drone_id_counter, step_log, error, spawn_times,
                   table_trace, step_args, query>>

NextMove == MoveStepCall

SpecMove == InitMove /\ [][NextMove]_vars

----------------------------------------------------------------------------
(* Direct calls of Drone.assign_target and Drone.move_step                 *)

\* the target of the second assignment: the last cell of the first column
AssignGoal == <<MaxPathLen - 1, 0>>

\* a path of adjacent cells from pos to AssignGoal
RECURSIVE GoalPath(_)
GoalPath(pos) ==
    IF pos = AssignGoal THEN <<pos>>
    ELSE <<pos>> \o GoalPath(<<IF pos[1] < AssignGoal[1] THEN pos[1] + 1 ELSE pos[1],
                                IF pos[2] > AssignGoal[2] THEN pos[2] - 1 ELSE pos[2]>>)

\* one call of drones[1].assign_target(AssignGoal, path), the path empty,
\* from the drone's position, or from the cell after
AssignTargetCall ==
    \E path \in {<<>>, GoalPath(drones[1].pos), Tail(GoalPath(drones[1].pos))} :
        /\ drones[1].target # AssignGoal
        /\ drones' = <<assign_target(drones[1], AssignGoal, path)>>
        /\ step_args' = [target |-> AssignGoal, path |-> path]
        /\ UNCHANGED <<world_vars, config_vars, known_survivors, discovered_survivors,
                       rescued_survivors, all_survivors_in_map, assignments, current_time,
                       next_spawn_time, drone_id_counter, step_log, pheromone, error,
                       spawn_times, table_trace, advances, trail, query>>

NextDrone == MoveStepCall \/ AssignTargetCall

SpecDrone == InitMove /\ [][NextDrone]_vars

----------------------------------------------------------------------------
(* Properties of the mission                                               *)

Revealed == known_survivors \cup discovered_survivors

Injective(table) ==
    \A a \in DOMAIN table : \A b \in DOMAIN table : a # b => table[a] # table[b]

\* C1: the assignment table never maps two distinct drone ids to the same
\* target, neither between steps nor after any single write of the table
\* made inside the reassignment pass or the greedy assignment pass.
C1_AssignmentUnique ==
    /\ Injective(assignments)
    /\ \A k \in 1..Len(table_trace) : Injective(table_trace[k])

\* two drones were committed by the same assignment pass
C1_Witness ==
    /\ Len(step_log.assigned) >= 2
    /\ Cardinality(DOMAIN assignments) >= 2

\* C2: Rescued is a subset of Known \cup Discovered.
C2_RescuedSubset == rescued_survivors \subseteq Revealed

\* a survivor discovered during the mission has been rescued
C2_Witness == rescued_survivors \cap discovered_survivors # {}

\* C3: a drone's target, a value of the assignment table (after any write)
\* and a target listed in StepLog.assigned is always in Known \cup
\* Discovered; so a survivor cell not yet revealed is never assigned.
C3_OnlyRevealedAssigned ==
    /\ \A i \in 1..Len(drones) : drones[i].target = NoTarget \/ drones[i].target \in Revealed
    /\ Range(assignments) \subseteq Revealed
    /\ \A k \in 1..Len(table_trace) : Range(table_trace[k]) \subseteq Revealed
    /\ \A k \in 1..Len(step_log.assigned) : step_log.assigned[k][2] \in Revealed
    /\ \A c \in list_survivors \ Revealed :
          /\ \A i \in 1..Len(drones) : drones[i].target # c
          /\ c \notin Range(assignments)

\* an assignment pass committed a drone while a survivor cell was still hidden
C3_Witness ==
    /\ Len(step_log.assigned) > 0
    /\ list_survivors \ (Revealed \cup rescued_survivors) # {}

\* C4: a coordinate enters Discovered in a step only if its cell is a
\* survivor cell and some drone's position after the step's move is at
\* squared distance dy*dy + dx*dx <= radius*radius from it.
C4_DiscoveryLocality ==
    [][\A c \in discovered_survivors' \ discovered_survivors :
          /\ c \in Cells
          /\ grid[c] = "SURVIVOR"
          /\ \E i \in 1..Len(drones') :
                LET dy == c[1] - drones'[i].pos[1]
                    dx == c[2] - drones'[i].pos[2]
                IN  dy * dy + dx * dx <= detection_radius * detection_radius]_vars

\* the last step discovered a survivor while a drone stood on a cell of
\* the bounding square that is outside the circle around another survivor
C4_Witness ==
    /\ Len(step_log.discovered) > 0
    /\ \E i \in 1..Len(drones) : \E c \in list_survivors :
          LET dy == Abs(c[1] - drones[i].pos[1])
              dx == Abs(c[2] - drones[i].pos[2])
          IN  /\ dy <= detection_radius /\ dx <= detection_radius
              /\ dy * dy + dx * dx > detection_radius * detection_radius

\* C5: is_mission_complete() is true exactly when |Rescued| = |Known \cup
\* Discovered|, which is exactly when Rescued = Known \cup Discovered;
\* survivor cells never revealed do not count.
C5_CompletionClosure ==
    /\ is_mission_complete <=> (Cardinality(rescued_survivors) = Cardinality(Revealed))
    /\ is_mission_complete <=> (rescued_survivors = Revealed)

\* the mission is complete after a rescue while a survivor cell is still hidden
C5_Witness ==
    /\ is_mission_complete
    /\ rescued_survivors # {}
    /\ list_survivors \ Revealed # {}

\* the mission of C6: 5x5 all free, no diagonals, spawn point (0,0),
\* Known = {(0,4)}, a single drone of speed 1.0 deployed before or by the
\* first step
C6_Mission ==
    /\ grid = GridOf(OpenRows)
    /\ ~allow_diagonal
    /\ spawn_point = <<0, 0>>
    /\ known_survivors = {<<0, 4>>}
    /\ Len(drones) = 1
    /\ drones[1].speed = SpeedDen
    /\ spawn_times[1] = 0

\* C6 as stated: after 4 step() calls the target (0,4) is rescued and the
\* mission is complete.
C6_AsStated ==
    (C6_Mission /\ current_time = 4)
        => (<<0, 4>> \in rescued_survivors /\ is_mission_complete)

\* C6 amended: the first step only deploys and assigns, so after 4 step()
\* calls the drone is at (0,3) with (0,4) not yet rescued, and after 5
\* step() calls (0,4) is rescued and the mission is complete.
C6_RescuedAfterFive ==
    /\ (C6_Mission /\ current_time = 4)
          => (drones[1].pos = <<0, 3>> /\ rescued_survivors = {} /\ ~is_mission_complete)
    /\ (C6_Mission /\ current_time >= 5)
          => (<<0, 4>> \in rescued_survivors /\ is_mission_complete)

\* five steps of the mission of C6 have been made
C6_Witness == C6_Mission /\ current_time = 5 /\ drones[1].pos = <<0, 4>>

----------------------------------------------------------------------------
(* Properties of the pathfinder                                            *)

\* a step between neighbouring walkable cells: orthogonal, or diagonal
\* (when allowed) with neither cell sharing the corner an obstacle
ValidStep(a, b) ==
    LET dy == Abs(a[1] - b[1])
        dx == Abs(a[2] - b[2])
    IN  /\ a \in Cells /\ b \in Cells
        /\ grid[a] # "OBSTACLE" /\ grid[b] # "OBSTACLE"
        /\ \/ dy + dx = 1
           \/ /\ allow_diagonal
              /\ dy = 1 /\ dx = 1
              /\ grid[<<b[1], a[2]>>] # "OBSTACLE"
              /\ grid[<<a[1], b[2]>>] # "OBSTACLE"

IsDiagonal(a, b) == a[1] # b[1] /\ a[2] # b[2]

\* terrain cost of entering b from a: free 1, hazard 5, times sqrt(2) on a diagonal
RefStepCost(a, b) ==
    (IF grid[b] = "DANGER" THEN 5 ELSE 1) * (IF IsDiagonal(a, b) THEN SqrtOf(2) ELSE SCALE)

INF == 1000 * SCALE

\* the eight cells around c
Around(c) == {<<c[1] + dy, c[2] + dx>> : dy \in {-1, 0, 1}, dx \in {-1, 0, 1}} \ {c}

\* one round of relaxation over a set of <<cell, cost>> pairs: every
\* reached cell and every cell one valid step further, each with its
\* least cost so far
RefRelax(reached) ==
    LET cand == reached \cup
                UNION {{<<c, e[2] + RefStepCost(e[1], c)>> :
                          c \in {q \in Around(e[1]) : ValidStep(e[1], q)}} : e \in reached}
    IN  {e \in cand : \A o \in cand : o[1] = e[1] => e[2] <= o[2]}

RECURSIVE RefClosure(_)
RefClosure(reached) ==
    LET next == RefRelax(reached)
    IN  IF next = reached THEN reached ELSE RefClosure(next)

\* least cost of a valid path from start to goal, INF when there is none
RefCost(start, goal) ==
    IF start \notin Cells \/ goal \notin Cells THEN INF
    ELSE IF grid[start] = "OBSTACLE" \/ grid[goal] = "OBSTACLE" THEN INF
    ELSE LET at_goal == {e \in RefClosure({<<start, 0>>}) : e[1] = goal}
         IN  IF at_goal = {} THEN INF ELSE (CHOOSE e \in at_goal : TRUE)[2]

\* the cells connected to start by valid steps: reached so far, and the
\* frontier of cells reached in the last round
RECURSIVE RefReach(_, _)
RefReach(reached, frontier) ==
    LET fresh == UNION {{c \in Around(p) : ValidStep(p, c)} : p \in frontier} \ reached
    IN  IF fresh = {} THEN reached ELSE RefReach(reached \cup fresh, fresh)

RefReachable(start, goal) ==
    /\ start \in Cells /\ goal \in Cells
    /\ grid[start] # "OBSTACLE" /\ grid[goal] # "OBSTACLE"
    /\ goal \in RefReach({start}, {start})

\* C7: a returned path begins at start, ends at goal, has only in-bounds
\* walkable cells, and each consecutive pair is a valid neighbour step
\* under the diagonal policy.
C7_PathValid ==
    (query.called /\ query.result.found) =>
        LET path == query.result.path
        IN  /\ Len(path) >= 1
            /\ path[1] = query.start
            /\ path[Len(path)] = query.goal
            /\ \A k \in 1..Len(path) : path[k] \in Cells /\ grid[path[k]] # "OBSTACLE"
            /\ \A k \in 1..(Len(path) - 1) : ValidStep(path[k], path[k + 1])

\* a returned path takes a diagonal step beside an obstacle elsewhere on the grid
C7_Witness ==
    /\ query.called /\ query.result.found
    /\ \E c \in Cells : grid[c] = "OBSTACLE"
    /\ \E k \in 1..(Len(query.result.path) - 1) :
          IsDiagonal(query.result.path[k], query.result.path[k + 1])

\* C8: the returned cost is the least cost of any valid path from start to
\* goal (sum of the terrain costs of the cells entered), with and without
\* diagonals.
C8_LeastCost ==
    (query.called /\ query.result.found) =>
        query.result.cost = RefCost(query.start, query.goal)

\* the least-cost path found avoids a hazard: it is dearer than the
\* heuristic but cheaper than going through the hazard cell
C8_Witness ==
    /\ query.called /\ query.result.found /\ ~allow_diagonal
    /\ \E c \in Cells : grid[c] = "DANGER"
    /\ query.result.cost > heuristic(query.start, query.goal)
    /\ \A k \in 1..Len(query.result.path) : grid[query.result.path[k]] # "DANGER"

BadEndpoint(c) == c \notin Cells \/ grid[c] = "OBSTACLE"

\* C9: with start or goal out of bounds or an obstacle, find_path returns
\* None without any iteration of the search; with start = goal walkable it
\* returns the path [start] with cost 0.
C9_Endpoints ==
    query.called =>
        /\ (BadEndpoint(query.start) \/ BadEndpoint(query.goal)) => query.result = None
        /\ (query.start = query.goal /\ ~BadEndpoint(query.start)) =>
              /\ query.result.found
              /\ query.result.path = <<query.start>>
              /\ query.result.cost = 0

\* find_path was called with a walkable start and an obstacle goal
C9_Witness ==
    /\ query.called
    /\ ~BadEndpoint(query.start)
    /\ query.goal \in Cells /\ grid[query.goal] = "OBSTACLE"
    /\ query.result = None

\* C10: the search ends after at most one iteration per entry pushed (one
\* for start and at most eight per cell expanded), and it returns None
\* exactly when no valid path connects start to goal.
C10_NotFoundIffUnreachable ==
    query.called =>
        /\ query.result.pops <= 1 + 8 * Cardinality(Cells)
        /\ query.result.found <=> RefReachable(query.start, query.goal)

\* the goal is walkable and differs from start, but no step leads into it
C10_Witness ==
    /\ query.called
    /\ ~BadEndpoint(query.start) /\ ~BadEndpoint(query.goal)
    /\ query.start # query.goal
    /\ \A c \in Cells : ~ValidStep(c, query.goal)
    /\ ~query.result.found
    /\ query.result.pops > 1

\* C11: find_path is deterministic: the heap order (f, g, coordinate)
\* leaves a single entry to pop at every iteration and neighbours come in a
\* fixed order, so every run of the search on the same grid, start, goal
\* and diagonal flag returns the same path and cost.
C11_Deterministic ==
    query.called => find_path_runs(query.start, query.goal) = {query.result}

\* a path was returned around a free 2x2 block, where the path through the
\* other corner costs the same
C11_Witness ==
    /\ query.called /\ query.result.found /\ ~allow_diagonal
    /\ Len(query.result.path) = 3
    /\ query.start[1] # query.goal[1] /\ query.start[2] # query.goal[2]
    /\ grid[<<query.start[1], query.goal[2]>>] = "NORMAL"
    /\ grid[<<query.goal[1], query.start[2]>>] = "NORMAL"
    /\ grid[query.goal] = "NORMAL"

\* C12: whenever find_path returns a path, its cost is not less than
\* heuristic(start, goal): the Manhattan distance without diagonals, the
\* Euclidean distance with them (every walkable cell costs at least 1).
C12_CostAtLeastHeuristic ==
    (query.called /\ query.result.found) =>
        ~Less(query.result.cost, heuristic(query.start, query.goal))

\* C13: a drone holding a path whose first waypoint is its position has,
\* after j advances, moved forward min(k*j, remaining) waypoints with the
\* integer speed k (so one advance moves it min(k, remaining) waypoints),
\* and one waypoint every n advances with the speed 1/n, n > 1.
C13_AdvanceBySpeed ==
    (binary64 /\ Len(drones) = 1 /\ drones[1].path[1] = <<0, 0>>) =>
        LET d == drones[1]
        IN  /\ d.pos = d.path[d.current_waypoint_idx]
            /\ \A k \in 1..MaxSpeed :
                  d.speed = FloatOf(k) =>
                      d.current_waypoint_idx = Min(1 + k * advances, Len(d.path))
            /\ \A n \in 2..MaxSlow :
                  d.speed = FloatDiv(1, n) =>
                      d.current_waypoint_idx = Min(1 + (advances \div n), Len(d.path))

\* C14: in an assignment pass survivors without a path are skipped
\* without error: every survivor committed by the pass can be reached from
\* its drone, no survivor is committed twice, and a drone idle after the
\* pass has no table entry and no unclaimed revealed survivor it can reach
\* (two idle drones, one reachable and one enclosed survivor: exactly one
\* drone is committed, to the reachable survivor).
C14_UnreachableSkipped ==
    /\ ~error
    /\ \A k \in 1..Len(step_log.assigned) :
          /\ \E i \in 1..Len(drones) :
                /\ drones[i].drone_id = step_log.assigned[k][1]
                /\ RefReachable(drones[i].pos, step_log.assigned[k][2])
          /\ \A j \in 1..Len(step_log.assigned) :
                j # k => step_log.assigned[j][2] # step_log.assigned[k][2]
    /\ current_time > 0 =>
          \A i \in 1..Len(drones) :
              drones[i].target = NoTarget =>
                  /\ drones[i].drone_id \notin DOMAIN assignments
                  /\ \A t \in (Revealed \ rescued_survivors) \ Range(assignments) :
                        ~RefReachable(drones[i].pos, t)
    /\ (/\ grid = GridOf(WalledRows)
        /\ spawn_point = <<0, 0>>
        /\ known_survivors = {<<0, 3>>, <<2, 1>>}
        /\ current_time = 1
        /\ Len(drones) = 2)
          => /\ Len(step_log.assigned) = 1
             /\ step_log.assigned[1][2] = <<2, 1>>
             /\ Cardinality(DOMAIN assignments) = 1
             /\ \E i \in 1..2 : drones[i].target = NoTarget /\ drones[i].pos = <<0, 0>>

\* the first pass over two idle drones committed one of them and left the
\* other idle, the enclosed survivor unclaimed
C14_Witness ==
    /\ spawn_point = <<0, 0>>
    /\ current_time = 1
    /\ Len(drones) = 2
    /\ Len(step_log.assigned) = 1
    /\ \E i \in 1..2 : drones[i].target = NoTarget
    /\ \E t \in (Revealed \ rescued_survivors) \ Range(assignments) :
          t \in Cells /\ grid[t] = "SURVIVOR"

\* C15: step() never ends in an error: whatever the grid, the spawn point
\* (an obstacle, an enclosed cell, a coordinate out of bounds), the Known
\* set, the spawn flags and the speeds, every step runs all its phases and
\* advances the clock by one, and the deletion made by the reassignment
\* pass always finds the drone's table entry.
C15_StepNeverFails ==
    /\ ~error
    /\ step_log.time = current_time - 1

\* a step has cancelled a drone's table entry and written a new one
C15_Witness ==
    /\ current_time > 0
    /\ ~error
    /\ \E k \in 2..(Len(table_trace) - 1) :
          \E id \in DOMAIN table_trace[k + 1] :
              /\ id \notin DOMAIN table_trace[k]
              /\ id \in DOMAIN table_trace[k - 1]

\* the revealed coordinates that no valid sequence of steps connects to the
\* spawn point
Stranded == {t \in Revealed : ~RefReachable(spawn_point, t)}

\* the drone has no revealed, unrescued survivor within reach
NothingInReach(d, revealed, rescued) ==
    \A t \in revealed \ rescued : ~RefReachable(d.pos, t)

\* C16: a revealed survivor that no valid path connects to the spawn point
\* is never a drone's target, never has a table entry and is never
\* rescued, and while it is revealed is_mission_complete() is false; a
\* drone that has no target and, after the step, no revealed unrescued
\* survivor within reach is left without a target at the same position.
C16_UnreachableNeverServed ==
    /\ [](\A t \in Stranded :
             /\ \A i \in 1..Len(drones) : drones[i].target # t
             /\ t \notin Range(assignments)
             /\ t \notin rescued_survivors
             /\ ~is_mission_complete)
    /\ [][\A i \in 1..Len(drones) :
             (/\ drones[i].target = NoTarget
              /\ NothingInReach(drones[i], Revealed', rescued_survivors'))
             => /\ drones'[i].target = NoTarget
                /\ drones'[i].pos = drones[i].pos
                /\ drones'[i].path = <<>>
                /\ drones[i].drone_id \notin DOMAIN assignments']_vars

\* every reachable survivor has been rescued, the enclosed one is still
\* waiting, and a drone that travelled stands idle away from the spawn point
C16_Witness ==
    /\ Stranded # {}
    /\ rescued_survivors # {}
    /\ Revealed \ rescued_survivors = Stranded
    /\ current_time >= 4
    /\ step_log.moved = <<>>
    /\ \E i \in 1..Len(drones) :
          /\ drones[i].target = NoTarget
          /\ drones[i].pos # spawn_point
          /\ drones[i].total_distance_traveled # Num(0)

\* C17: over any sequence of steps known_survivors never changes,
\* discovered_survivors and rescued_survivors only grow, and no coordinate
\* passes between known_survivors and discovered_survivors: a coordinate
\* that enters discovered_survivors is not a known one, and the two sets
\* stay disjoint.
C17_SetsOnlyGrow ==
    [][/\ known_survivors' = known_survivors
       /\ discovered_survivors \subseteq discovered_survivors'
       /\ rescued_survivors \subseteq rescued_survivors'
       /\ (discovered_survivors' \ discovered_survivors) \cap known_survivors = {}
       /\ known_survivors' \cap discovered_survivors' = {}]_vars

\* a known and a discovered survivor have both been rescued, and a step
\* has since been made with a drone next to a rescued survivor's cell
C17_Witness ==
    /\ rescued_survivors \cap known_survivors # {}
    /\ rescued_survivors \cap discovered_survivors # {}
    /\ step_log.rescued = <<>>
    /\ \E i \in 1..Len(drones) : \E c \in rescued_survivors \cap known_survivors :
          c \in Cells /\ grid[c] = "SURVIVOR" /\ InRadius(drones[i].pos, c)

\* the sum, in the order of travel, of the Euclidean distances between the
\* consecutive distinct cells of the first n entries of a trail
RECURSIVE TrailSum(_, _)
TrailSum(cells, n) ==
    IF n <= 1 THEN Num(0)
    ELSE LET a == cells[n - 1]
             b == cells[n]
             dy == b[1] - a[1]
             dx == b[2] - a[2]
         IN  IF a = b THEN TrailSum(cells, n - 1)
             ELSE Plus(TrailSum(cells, n - 1), Sqrt(dy * dy + dx * dx))

\* C18: a drone's total_distance_traveled is the sum of the Euclidean
\* distances between the consecutive distinct cells it has occupied, every
\* waypoint crossed inside one move_step call included; without diagonal
\* movement it is the number of waypoints consumed; and no step decreases it.
C18_DistanceAccounting ==
    /\ [](\A i \in 1..Len(drones) :
             /\ drones[i].pos = trail[i][Len(trail[i])]
             /\ drones[i].total_distance_traveled = TrailSum(trail[i], Len(trail[i]))
             /\ ~allow_diagonal
                   => drones[i].total_distance_traveled = Num(Len(trail[i]) - 1))
    /\ [][\A i \in 1..Len(drones) :
             ~Less(drones'[i].total_distance_traveled,
                   drones[i].total_distance_traveled)]_vars

\* the last step took a drone over at least two waypoints, one by a
\* diagonal hop and one by a straight hop, after an earlier assignment of
\* the drone had ended
C18_Witness ==
    \E i \in 1..Len(drones) :
        LET t == trail[i]
            n == Len(t)
        IN  /\ n >= 4
            /\ \E k \in 1..Len(step_log.moved) :
                  /\ step_log.moved[k][1] = drones[i].drone_id
                  /\ step_log.moved[k][2] = t[n - 2]
            /\ (t[n][1] - t[n - 1][1]) * (t[n][2] - t[n - 1][2]) # 0
            /\ (t[n - 1][1] - t[n - 2][1]) * (t[n - 1][2] - t[n - 2][2]) = 0
            /\ rescued_survivors # {}

\* C19: no step changes the dimensions of the grid or the class of a
\* cell (the cell of a rescued survivor stays a survivor cell), and the
\* cost of entering a cell is decided by its class alone: two cells of the
\* same class cost the same, whether or not a drone stands on them.
C19_TerrainUnchanged ==
    [][/\ grid' = grid
       /\ height' = height
       /\ width' = width
       /\ \A c \in rescued_survivors' \cap Cells : grid'[c] = grid[c]
       /\ \A a \in Cells : \A b \in Cells :
             grid'[a] = grid'[b] => get_cost(a[1], a[2])' = get_cost(b[1], b[2])']_vars

\* the last step moved a drone onto a survivor's cell and rescued it, the
\* cell is still a survivor cell, and the drone stands on it
C19_Witness ==
    /\ Len(step_log.rescued) > 0
    /\ Len(step_log.moved) > 0
    /\ \E i \in 1..Len(drones) :
          /\ drones[i].pos \in rescued_survivors \cap Cells
          /\ grid[drones[i].pos] = "SURVIVOR"
          /\ <<drones[i].drone_id, drones[i].pos>> \in Range(step_log.rescued)

\* what a step() call does about spawning when the threshold after a spawn
\* is the given one: a drone is appended exactly when spawning was
\* requested and the clock had reached next_spawn_time; the new drone has
\* the next id, stands at the spawn point with the speed passed and no
\* distance travelled, and has no target and no path unless the assignment
\* pass of the same step gave it one; the threshold moves only on a spawn.
SpawnRule(threshold_after) ==
    current_time' # current_time =>
        LET due == step_args'.spawn_new_drone /\ current_time >= next_spawn_time
            n == Len(drones')
        IN  /\ n = Len(drones) + (IF due THEN 1 ELSE 0)
            /\ due <=> step_log'.spawned # <<>>
            /\ ~due => next_spawn_time' = next_spawn_time
            /\ due =>
                  /\ step_log'.spawned = <<drone_id_counter>>
                  /\ drone_id_counter' = drone_id_counter + 1
                  /\ drones'[n].drone_id = drone_id_counter
                  /\ drones'[n].pos = spawn_point
                  /\ drones'[n].speed = step_args'.new_drone_speed
                  /\ drones'[n].total_distance_traveled = Num(0)
                  /\ \/ drones'[n].target = NoTarget /\ drones'[n].path = <<>>
                     \/ \E k \in 1..Len(step_log'.assigned) :
                           /\ step_log'.assigned[k][1] = drone_id_counter
                           /\ step_log'.assigned[k][2] = drones'[n].target
                  /\ next_spawn_time' = threshold_after

\* C20 as claimed: step() creates a drone iff spawning is requested and
\* the clock has reached the next-spawn threshold; the drone starts at the
\* spawn point with the supplied speed, no target, an empty path and zero
\* distance; and the spawn moves the threshold to the previous threshold
\* plus the spawn delay.
C20_SpawnRule == [][SpawnRule(next_spawn_time + drone_spawn_delay)]_vars

\* C20, amended: as above, but the spawn moves the threshold to the clock
\* value of the spawning step plus the spawn delay.
C20_SpawnRuleFromClock == [][SpawnRule(current_time + drone_spawn_delay)]_vars

\* the last step spawned a drone after the threshold had passed, another
\* drone being out on a path, and a step before it was refused a spawn
C20_Witness ==
    /\ step_log.spawned # <<>>
    /\ step_args.spawn_new_drone
    /\ next_spawn_time = step_log.time + drone_spawn_delay
    /\ next_spawn_time % drone_spawn_delay # 0
    /\ Len(drones) >= 2
    /\ drones[Len(drones)].pos = spawn_point
    /\ drones[1].pos # spawn_point

\* C21: drones are never destroyed or renumbered: the list of drones
\* never gets shorter, the ids are pairwise distinct and are 0..n-1 in the
\* order of creation, the counter is the next id, and no step changes the
\* id or the speed of a drone.
C21_DronesKept ==
    /\ [](/\ \A i \in 1..Len(drones) : drones[i].drone_id = i - 1
          /\ \A i \in 1..Len(drones) : \A j \in 1..Len(drones) :
                i # j => drones[i].drone_id # drones[j].drone_id
          /\ drone_id_counter = Len(drones)
          /\ \A i \in 1..(Len(drones) - 1) : spawn_times[i] <= spawn_times[i + 1])
    /\ [][/\ Len(drones') >= Len(drones)
          /\ \A i \in 1..Len(drones) :
                /\ drones'[i].drone_id = drones[i].drone_id
                /\ drones'[i].speed = drones[i].speed]_vars

\* two drones of different speeds, the second created by a step after the
\* first had rescued a survivor, and steps made since
C21_Witness ==
    /\ Len(drones) >= 2
    /\ drones[1].speed # drones[2].speed
    /\ spawn_times[2] > spawn_times[1]
    /\ rescued_survivors # {}
    /\ current_time > spawn_times[2] + 1
    /\ drones[1].total_distance_traveled # Num(0)

\* the least costs of valid paths from start, as <<cell, cost>> pairs
RefCosts(start) ==
    IF start \notin Cells THEN {}
    ELSE IF grid[start] = "OBSTACLE" THEN {}
    ELSE RefClosure({<<start, 0>>})

\* the estimated time to goal at the given speed, INF when out of reach
RefTime(costs, goal, speed) ==
    LET at_goal == {e \in costs : e[1] = goal}
    IN  IF goal \notin Cells THEN INF
        ELSE IF grid[goal] = "OBSTACLE" \/ at_goal = {} THEN INF
        ELSE ((CHOOSE e \in at_goal : TRUE)[2] * SpeedDen) \div speed

\* the table before the k-th of n writes that end a step's table_trace,
\* given the table at the step's start
TableBefore(before, trace, n, k) ==
    IF Len(trace) - n + k - 1 = 0 THEN before ELSE trace[Len(trace) - n + k - 1]

\* the k-th commitment of a pass goes to a drone without table entry, later
\* in the list than the drone of the commitment before it, and to a
\* revealed, unrescued target that the table does not hold at that moment
\* and that no other such target beats on path cost / speed
GreedyCommit(before, made, trace, dr, open_targets, k) ==
    LET id == made[k][1]
        t == made[k][2]
        d == dr[id + 1]
        table == TableBefore(before, trace, Len(made), k)
        costs == RefCosts(d.pos)
    IN  /\ k > 1 => made[k - 1][1] < id
        /\ id \notin DOMAIN table
        /\ t \in open_targets \ Range(table)
        /\ RefTime(costs, t, d.speed) < INF
        /\ made[k][3] = RefTime(costs, t, d.speed)
        /\ \A o \in open_targets \ Range(table) :
              RefTime(costs, t, d.speed) <= RefTime(costs, o, d.speed)
        /\ trace[Len(trace) - Len(made) + k] = (id :> t) @@ table
        /\ d.target = t
        /\ d.path[1] = d.pos /\ d.path[Len(d.path)] = t

\* C22: in the assignment pass of a step the drones without active target
\* are taken in the order of the list, and each is committed to a target of
\* least path cost / speed from its position among the revealed, unrescued
\* targets the table does not hold at that moment, commitments made
\* earlier in the pass included; a drone holding an active target when the
\* pass begins keeps its entry and its target and gets no commitment.
C22_GreedyPass ==
    [][current_time' # current_time =>
          LET made == step_log'.assigned
              open_targets == (known_survivors' \cup discovered_survivors')
                                 \ rescued_survivors'
              start == TableBefore(assignments, table_trace', Len(made), 1)
          IN  /\ Len(table_trace') >= Len(made)
              /\ \A k \in 1..Len(made) :
                    GreedyCommit(assignments, made, table_trace', drones',
                                 open_targets, k)
              /\ \A i \in 1..Len(drones') :
                    drones'[i].drone_id \in DOMAIN start =>
                       /\ \A k \in 1..Len(made) : made[k][1] # drones'[i].drone_id
                       /\ assignments'[drones'[i].drone_id] = start[drones'[i].drone_id]
                       /\ drones'[i].target = start[drones'[i].drone_id]]_vars

\* the last pass committed two drones, and the target the first took
\* would have been cheaper for the second than the one it was left with
C22_Witness ==
    /\ Len(step_log.assigned) = 2
    /\ LET second == drones[step_log.assigned[2][1] + 1]
       IN  RefTime(RefCosts(second.pos), step_log.assigned[1][2], second.speed)
              < step_log.assigned[2][3]

\* the least cost of a valid path to goal among the pairs, INF when none
RefCostIn(costs, goal) ==
    LET at_goal == {e \in costs : e[1] = goal}
    IN  IF goal \notin Cells THEN INF
        ELSE IF grid[goal] = "OBSTACLE" \/ at_goal = {} THEN INF
        ELSE (CHOOSE e \in at_goal : TRUE)[2]

\* what the reassignment pass did to the drone d_after, which held the
\* target old when the pass began: at_start and at_end are the table when
\* the pass begins and ends, open_targets the revealed, unrescued targets
ReassignRule(d_before, d_after, old, at_start, at_end, open_targets, ran) ==
    LET id == d_after.drone_id
        costs == RefCosts(d_after.pos)
    IN  /\ id \in DOMAIN at_end
        /\ at_end[id] # old =>
              /\ ran
              /\ at_end[id] \in open_targets \ Range(at_start)
              /\ 2 * RefCostIn(costs, at_end[id]) < RefCostIn(costs, old)
              /\ RefCostIn(costs, old) < INF
              /\ old \notin Range(at_end)
              /\ old \in open_targets
              /\ d_after.target = at_end[id]
              /\ d_after.path[1] = d_after.pos
              /\ d_after.path[Len(d_after.path)] = at_end[id]
              /\ d_after.path_progress = Num(0)
              /\ d_after.current_waypoint_idx = 1
        /\ at_end[id] = old =>
              /\ d_after.target = old
              /\ d_after.path = d_before.path
              /\ d_after = move_step(d_before).drone
              /\ ran => \A c \in (open_targets \ Range(at_start)) \ Range(at_end) :
                           ~(2 * RefCostIn(costs, c) < RefCostIn(costs, old))

\* C23: the reassignment pass moves a drone from its active target T to T'
\* only if T' is revealed, unrescued and in nobody's table entry and the
\* path cost from the drone's position to T' is strictly under half the
\* path cost to T; a drone is moved when a candidate meets that
\* threshold and is otherwise left with its target, path and progress;
\* after a move T is out of the table, still unrescued, and open to the
\* assignment pass of the same step.
C23_ReassignRule ==
    [][current_time' # current_time =>
          LET made == step_log'.assigned
              open_targets == (known_survivors' \cup discovered_survivors')
                                 \ rescued_survivors'
              n_rescued == Len(step_log'.rescued)
              at_start == IF n_rescued = 0 THEN assignments ELSE table_trace'[n_rescued]
              at_end == TableBefore(assignments, table_trace', Len(made), 1)
              ran == step_log'.discovered # <<>> /\ open_targets \ Range(at_start) # {}
          IN  /\ DOMAIN at_end = DOMAIN at_start
              /\ ~ran => at_end = at_start
              /\ \A i \in 1..Len(drones) :
                    drones[i].drone_id \in DOMAIN at_start =>
                        ReassignRule(drones[i], drones'[i], at_start[drones[i].drone_id],
                                     at_start, at_end, open_targets, ran)]_vars

\* the last step moved a drone to a survivor it had just discovered, and
\* the target it gave up was handed to another drone by the assignment
\* pass of the same step
C23_Witness ==
    /\ Len(step_log.discovered) > 0
    /\ \E k \in 2..(Len(table_trace) - 1) : \E id \in DOMAIN table_trace[k + 1] :
          /\ id \notin DOMAIN table_trace[k]
          /\ id \in DOMAIN table_trace[k - 1]
          /\ table_trace[k + 1][id] \in Range(step_log.discovered)
          /\ \E j \in 1..Len(step_log.assigned) :
                /\ step_log.assigned[j][2] = table_trace[k - 1][id]
                /\ step_log.assigned[j][1] # id

\* the drones of the table whose entry differs between two tables
Switched(at_start, at_end) ==
    {id \in DOMAIN at_start \cap DOMAIN at_end : at_end[id] # at_start[id]}

\* C24: the reassignment pass runs only in a step that discovered a
\* survivor, after the moves and before the assignment pass of that step:
\* the table is written by the rescues, then by the reassignments, then by
\* the assignments, and a drone's target changes from one survivor to
\* another, without that drone rescuing, only in a step whose log lists a
\* discovery.
C24_ReassignOnlyOnDiscovery ==
    [][/\ \A i \in 1..Len(drones) :
             (/\ drones[i].target # NoTarget
              /\ drones'[i].target # NoTarget
              /\ drones'[i].target # drones[i].target
              /\ \A k \in 1..Len(step_log'.rescued) :
                    step_log'.rescued[k][1] # drones[i].drone_id \/ current_time' = current_time)
                => /\ current_time' # current_time
                   /\ step_log'.discovered # <<>>
       /\ current_time' # current_time =>
             LET n_rescued == Len(step_log'.rescued)
                 n_made == Len(step_log'.assigned)
                 at_start == IF n_rescued = 0 THEN assignments ELSE table_trace'[n_rescued]
                 at_end == TableBefore(assignments, table_trace', n_made, 1)
             IN  /\ Len(table_trace') = n_rescued + 2 * Cardinality(Switched(at_start, at_end)) + n_made
                 /\ step_log'.discovered = <<>> => Switched(at_start, at_end) = {}]_vars

\* the third step or a later one discovered a survivor, rescued nobody
\* and moved one drone from its target to another
C24_Witness ==
    /\ Len(step_log.discovered) > 0
    /\ Len(step_log.rescued) = 0
    /\ Len(table_trace) = 2 + Len(step_log.assigned)
    /\ current_time > 2

\* the drones that stand, after the move, on the target they held before
\* it, in list order, each with its identifier and that target
Arrivals(before, after) ==
    SelectSeq([i \in 1..Len(before) |-> <<before[i].drone_id, before[i].target, after[i].pos>>],
              LAMBDA e : e[2] # NoTarget /\ e[3] = e[2])

\* C25: a step adds T to Rescued iff some drone's position after the move
\* is its own target T; the step then deletes that drone's table entry,
\* clears its target and path (the assignment pass of the same step may
\* give it another target) and logs (drone id, T) as rescued.  A drone on
\* a revealed target that is not its own does not rescue it.
C25_RescueRule ==
    [][current_time' # current_time =>
          LET arrivals == Arrivals(drones, drones')
              made == step_log'.assigned
          IN  /\ rescued_survivors' =
                    rescued_survivors \cup {arrivals[k][2] : k \in 1..Len(arrivals)}
              /\ step_log'.rescued = [k \in 1..Len(arrivals) |-> <<arrivals[k][1], arrivals[k][2]>>]
              /\ Len(table_trace') >= Len(arrivals)
              /\ \A k \in 1..Len(arrivals) :
                    /\ arrivals[k][1] \in DOMAIN assignments
                    /\ assignments[arrivals[k][1]] = arrivals[k][2]
                    /\ table_trace'[k] = Del(TableBefore(assignments, table_trace', Len(table_trace'), k),
                                             arrivals[k][1])
                    /\ arrivals[k][1] \notin DOMAIN table_trace'[k]
              /\ \A i \in 1..Len(drones) :
                    (drones[i].target # NoTarget /\ drones'[i].pos = drones[i].target) =>
                        IF \E k \in 1..Len(made) : made[k][1] = drones[i].drone_id
                        THEN /\ drones'[i].target \notin {NoTarget, drones[i].target}
                             /\ drones'[i].path[1] = drones'[i].pos
                        ELSE /\ drones'[i].target = NoTarget
                             /\ drones'[i].path = <<>>
                             /\ drones[i].drone_id \notin DOMAIN assignments'
              /\ \A i \in 1..Len(drones') :
                    (/\ drones'[i].pos \in (known_survivors' \cup discovered_survivors')
                     /\ \A j \in 1..Len(drones) :
                           drones[j].target = drones'[i].pos => drones'[j].pos # drones'[i].pos)
                       => drones'[i].pos \in rescued_survivors' <=> drones'[i].pos \in rescued_survivors]_vars

\* a survivor has been rescued, and the last step moved a drone onto a
\* revealed survivor that is not its target and is not rescued
C25_Witness ==
    /\ rescued_survivors # {}
    /\ \E i \in 1..Len(drones) :
          /\ drones[i].pos \in (known_survivors \cup discovered_survivors) \ rescued_survivors
          /\ drones[i].target # drones[i].pos
          /\ \E k \in 1..Len(step_log.moved) : step_log.moved[k][1] = drones[i].drone_id

\* the survivor cells of the grid at Euclidean distance at most the
\* detection radius from pos
Sensed(pos) ==
    {c \in Cells : /\ grid[c] = "SURVIVOR"
                   /\ (c[1] - pos[1]) * (c[1] - pos[1]) + (c[2] - pos[2]) * (c[2] - pos[2])
                         <= detection_radius * detection_radius}

\* C26: after every step, every survivor cell within the detection radius
\* of the position of any drone is in Known, Discovered or Rescued, and
\* the coordinates the step added to Discovered are the ones its log lists
\* as discovered.
C26_Sensing ==
    [][current_time' # current_time =>
          /\ \A i \in 1..Len(drones') :
                Sensed(drones'[i].pos) \subseteq
                    known_survivors' \cup discovered_survivors' \cup rescued_survivors'
          /\ discovered_survivors' \ discovered_survivors = Range(step_log'.discovered)
          /\ Injective(step_log'.discovered)]_vars

\* the last step took a drone over a waypoint it did not stop on, and a
\* survivor within the detection radius of that waypoint is not revealed
C26_Witness ==
    \E i \in 1..Len(drones) : \E k \in 1..Len(step_log.moved) :
        /\ step_log.moved[k][1] = drones[i].drone_id
        /\ Len(trail[i]) > 2
        /\ trail[i][Len(trail[i]) - 1] # step_log.moved[k][2]
        /\ Sensed(trail[i][Len(trail[i]) - 1])
              \ (known_survivors \cup discovered_survivors \cup rescued_survivors) # {}

\* the specified phase 2: every drone moves
RECURSIVE PhaseMove(_, _)
PhaseMove(m, i) ==
    IF i > Len(m.drones) THEN m
    ELSE PhaseMove([m EXCEPT !.drones[i] = move_step(m.drones[i]).drone,
                             !.trails[i] = m.trails[i] \o move_step(m.drones[i]).visited,
                             !.pheromone = Deposit(m.pheromone, move_step(m.drones[i]).visited, 1),
                             !.log.moved = IF m.drones[i].pos # move_step(m.drones[i]).drone.pos
                                           THEN Append(m.log.moved,
                                                       <<m.drones[i].drone_id, m.drones[i].pos,
                                                         move_step(m.drones[i]).drone.pos>>)
                                           ELSE m.log.moved],
                   i + 1)

\* the specified phase 3: every drone senses around its new position
RECURSIVE PhaseSense(_, _)
PhaseSense(m, i) ==
    IF i > Len(m.drones) THEN m
    ELSE PhaseSense([m EXCEPT !.discovered = m.discovered \cup check_detection(m, m.drones[i]),
                              !.log.discovered = m.log.discovered
                                                    \o ScanOrder(check_detection(m, m.drones[i]))],
                    i + 1)

\* the specified phase 4: every drone is rescue-checked
RECURSIVE PhaseRescue(_, _)
PhaseRescue(m, i) ==
    IF i > Len(m.drones) THEN m
    ELSE PhaseRescue(check_rescue(m, i), i + 1)

\* the specified phase 1: a drone is created when asked for and due
PhaseSpawn(spawn_new_drone, new_drone_speed) ==
    IF spawn_new_drone /\ current_time >= next_spawn_time
    THEN [spawn_drone(Mission, new_drone_speed) EXCEPT
             !.next_spawn_time = current_time + drone_spawn_delay,
             !.log.spawned = <<drone_id_counter>>]
    ELSE Mission

\* the specified step: spawn, the three phases over all drones, then the
\* reassignment and assignment passes
PhasedOutcomes(spawn_new_drone, new_drone_speed) ==
    LET replanned == UNION {IF Len(m2.log.discovered) > 0 THEN replan_if_needed(m2) ELSE {m2} :
                               m2 \in {PhaseRescue(PhaseSense(PhaseMove(
                                           PhaseSpawn(spawn_new_drone, new_drone_speed),
                                           1), 1), 1)}}
    IN  {[r.m EXCEPT !.log.assigned = r.made] :
            r \in UNION {assign_tasks(m3) : m3 \in replanned}}

\* C27: the step as implemented, which moves, senses and rescue-checks one
\* drone before it touches the next, has the same possible outcomes
\* (drones, Known/Discovered/Rescued, assignment table, step log) as the
\* step in the specified phase order: all drones move, then all sense,
\* then all are rescue-checked.  Where both orders hand the same state to
\* the reassignment and assignment passes the outcomes are the same
\* without being computed.
C27_PhaseOrder ==
    \A spawn_new_drone \in BOOLEAN :
    \A new_drone_speed \in (IF spawn_new_drone THEN Speeds ELSE {DefaultSpeed}) :
        (current_time < MaxTime /\ (spawn_new_drone => Len(drones) < MaxDrones))
           => \/ MoveAll(PhaseSpawn(spawn_new_drone, new_drone_speed), 1)
                   = PhaseRescue(PhaseSense(PhaseMove(
                        PhaseSpawn(spawn_new_drone, new_drone_speed), 1), 1), 1)
              \/ StepOutcomes(spawn_new_drone, new_drone_speed)
                   = PhasedOutcomes(spawn_new_drone, new_drone_speed)

\* the last step moved two drones, the first of them rescued its target
\* and a later one discovered a survivor
C27_Witness ==
    /\ Len(step_log.moved) >= 2
    /\ Len(step_log.rescued) > 0
    /\ step_log.rescued[1][1] = step_log.moved[1][1]
    /\ Len(step_log.discovered) > 0

\* C28: assign_target(target, path) replaces the drone's target and path by
\* its arguments and sets the progress to zero, whatever progress was made
\* toward the previous waypoint; the waypoint index becomes 1 if the first
\* waypoint of the path is the drone's position and 0 otherwise; position
\* and distance travelled are unchanged.
C28_Assign ==
    [][step_args' # step_args =>
          /\ drones'[1].target = step_args'.target
          /\ drones'[1].path = step_args'.path
          /\ drones'[1].path_progress = Num(0)
          /\ drones'[1].current_waypoint_idx =
                IF step_args'.path # <<>> /\ step_args'.path[1] = drones[1].pos THEN 1 ELSE 0
          /\ drones'[1].pos = drones[1].pos
          /\ drones'[1].total_distance_traveled = drones[1].total_distance_traveled
          /\ drones'[1].speed = drones[1].speed
          /\ drones'[1].drone_id = drones[1].drone_id]_vars

\* a drone of speed 1/2 was given the second target after one move_step
\* call, which had left it half way to the next waypoint, with a path
\* that does not start at its position
C28_Witness ==
    /\ step_args # NoArgs
    /\ advances = 1
    /\ drones[1].speed = FloatDiv(1, 2)
    /\ drones[1].target = AssignGoal
    /\ drones[1].path_progress = Num(0)
    /\ drones[1].path # <<>>
    /\ drones[1].current_waypoint_idx = 0

\* the terrain cost of the cells 2..n of the path, each times 1 for an
\* orthogonal step into it and times sqrt(2) for a diagonal one
RECURSIVE PathSum(_, _)
PathSum(path, n) ==
    IF n <= 1 THEN 0
    ELSE PathSum(path, n - 1) + RefStepCost(path[n - 1], path[n])

\* C29: the cost find_path returns is the sum, over the cells of the
\* returned path other than the start cell, of the cell's terrain cost
\* times 1 for an orthogonal step (times sqrt(2) for a diagonal step); the
\* terrain cost of the start cell is not counted.
C29_CostIsPathSum ==
    (query.called /\ query.result.found) =>
        /\ query.result.path[1] = query.start
        /\ query.result.cost = PathSum(query.result.path, Len(query.result.path))

\* a path of three or more cells that starts on a hazard cell and takes a
\* diagonal step
C29_Witness ==
    /\ query.called
    /\ query.result.found
    /\ Len(query.result.path) >= 3
    /\ grid[query.start] = "DANGER"
    /\ \E n \in 2..Len(query.result.path) :
          IsDiagonal(query.result.path[n - 1], query.result.path[n])

\* C30: a move_step call on a drone with no path, or whose path is
\* exhausted, changes nothing: position, progress, waypoint index and
\* distance travelled stay as they are, and so do the other fields of the
\* drone, its trail and the pheromone map; the drone is then still idle, so
\* it stays where it is however many calls follow.
C30_IdleAdvance ==
    [][(/\ advances' = advances + 1
        /\ \/ drones[1].path = <<>>
           \/ drones[1].current_waypoint_idx >= Len(drones[1].path))
          => /\ drones'[1].pos = drones[1].pos
             /\ drones'[1].path_progress = drones[1].path_progress
             /\ drones'[1].current_waypoint_idx = drones[1].current_waypoint_idx
             /\ drones'[1].total_distance_traveled = drones[1].total_distance_traveled
             /\ drones' = drones
             /\ trail' = trail
             /\ pheromone' = pheromone]_vars

\* a drone of speed 1 on its first path has had more move_step calls than
\* the path has waypoints: the last call found the path exhausted
C30_Witness ==
    /\ drones[1].target # AssignGoal
    /\ drones[1].speed = FloatOf(1)
    /\ drones[1].current_waypoint_idx >= Len(drones[1].path)
    /\ advances > Len(drones[1].path)

\* C31: the status record is consistent in every reachable state: its
\* clock is 0 before the first step() and one more after each step() that
\* returned (step_log is the record the last one returned); the total
\* is the known count plus the discovered count; remaining is the total
\* minus the rescued count and is not negative; active_assignments is the
\* number of drones holding a target and at most the number deployed.
C31_StatusConsistent ==
    /\ [](/\ get_status.time = step_log.time + 1
          /\ get_status.drones_deployed = Len(drones)
          /\ get_status.total_survivors
                = get_status.known_survivors + get_status.discovered_survivors
          /\ get_status.remaining_survivors
                = get_status.total_survivors - get_status.rescued_survivors
          /\ get_status.remaining_survivors >= 0
          /\ get_status.active_assignments
                = Cardinality({i \in 1..Len(drones) : drones[i].target # NoTarget})
          /\ get_status.active_assignments <= get_status.drones_deployed)
    /\ [][get_status'.time = IF step_log' # step_log THEN get_status.time + 1
                                                      ELSE get_status.time]_vars

\* after two steps or more, a survivor is discovered, one is rescued, one
\* drone holds a target and another holds none
C31_Witness ==
    /\ get_status.time >= 2
    /\ get_status.discovered_survivors > 0
    /\ get_status.rescued_survivors > 0
    /\ get_status.active_assignments = 1
    /\ get_status.drones_deployed = 2

\* the spawn point is a walkable cell and every revealed survivor has a
\* valid path from it
LivePremise ==
    /\ spawn_point \in Cells
    /\ grid[spawn_point] # "OBSTACLE"
    /\ Stranded = {}

\* some drone holds a target
SomeBusy == \E i \in 1..Len(drones) : drones[i].target # NoTarget

\* the survivor cells not revealed so far
Hidden == all_survivors_in_map \ Revealed

\* C32: when the spawn point is walkable, step() is called again and again
\* with a drone asked for on the first step, and every revealed survivor
\* has a valid path from the spawn point, is_mission_complete() becomes
\* true; the drones holding a target come to hold none, each target held
\* having been rescued or given up for another one;
\* and every step that moves a drone to another target reveals a survivor
\* cell that was hidden, none of which is ever hidden again, so drones are
\* moved between targets at most as many times as the map has survivor
\* cells.
C32_MissionCompletes ==
    /\ ~is_mission_complete ~> (is_mission_complete \/ ~LivePremise)
    /\ SomeBusy ~> (~SomeBusy \/ ~LivePremise)
    /\ [][/\ Hidden' \subseteq Hidden
          /\ (\E i \in 1..Len(drones) :
                 /\ drones[i].target # NoTarget
                 /\ drones'[i].target # NoTarget
                 /\ drones'[i].target # drones[i].target
                 /\ drones[i].target \notin rescued_survivors')
                => Cardinality(Hidden') < Cardinality(Hidden)]_vars

\* with the premise true, the mission is complete after more than six
\* steps, a survivor having been discovered and two survivors rescued
C32_Witness ==
    /\ LivePremise
    /\ is_mission_complete
    /\ discovered_survivors # {}
    /\ Cardinality(rescued_survivors) >= 2
    /\ current_time > 6

\* C33: between steps the assignment table and the drones agree: a drone's
\* id is a key of the table iff the drone has a target, the value under
\* that key is the drone's target, and every key of the table is the id of
\* a deployed drone.
C33_TableMatchesDrones ==
    /\ \A i \in 1..Len(drones) :
          /\ drones[i].drone_id \in DOMAIN assignments <=> drones[i].target # NoTarget
          /\ drones[i].drone_id \in DOMAIN assignments
                => assignments[drones[i].drone_id] = drones[i].target
    /\ DOMAIN assignments \subseteq {drones[i].drone_id : i \in 1..Len(drones)}

\* the last step rescued a survivor and then wrote the table again; of the
\* two drones one has a target and the other has none
C33_Witness ==
    /\ Len(step_log.rescued) > 0
    /\ Len(drones) = 2
    /\ Cardinality(DOMAIN assignments) = 1
    /\ \E k \in 2..Len(table_trace) : DOMAIN table_trace[k] # DOMAIN table_trace[k - 1]

\* C34: Known and Discovered are disjoint in every reachable state, and a
\* coordinate a step log lists as discovered was in none of Known,
\* Discovered and Rescued before that step.
C34_KnownDiscoveredDisjoint ==
    /\ [](known_survivors \cap discovered_survivors = {})
    /\ [][step_log' # step_log =>
             Range(step_log'.discovered)
                \cap (known_survivors \cup discovered_survivors \cup rescued_survivors) = {}]_vars

\* the last step discovered a survivor while a drone had a survivor cell
\* known from the start within its detection radius
C34_Witness ==
    /\ Len(step_log.discovered) > 0
    /\ \E i \in 1..Len(drones) : Sensed(drones[i].pos) \cap known_survivors # {}

\* the state was left by a step() after which a drone is deployed
AfterStepWithDrone == current_time > 0 /\ Len(drones) > 0

\* a step() that starts from a completed mission
StepFromComplete == step_log' # step_log /\ is_mission_complete

\* once a step() has ended with the mission complete and a drone deployed:
\* no drone has a target, and the next step() moves none, discovers
\* nothing and leaves the mission complete
StableCompletion ==
    (StepFromComplete /\ AfterStepWithDrone) =>
        /\ is_mission_complete'
        /\ discovered_survivors' = discovered_survivors
        /\ \A i \in 1..Len(drones) :
              /\ drones[i].target = NoTarget
              /\ drones'[i] = drones[i]

Unclaimed ==
    {t \in Revealed \ rescued_survivors :
        /\ t \notin Range(assignments)
        /\ \A j \in 1..Len(drones) : drones[j].target # t}

\* C36: at the end of every step() there is no drone without target
\* together with a revealed, unrescued target that no drone has claimed
\* and that can be reached from the position of that drone
C36_WorkConserving ==
    (current_time > 0 /\ ~error) =>
        \A i \in 1..Len(drones) : \A t \in Unclaimed :
            ~(drones[i].target = NoTarget /\ RefReachable(drones[i].pos, t))

\* a step() has left one drone with a target and another drone, which
\* has moved before, idle, while a revealed target is still unclaimed
C36_Witness ==
    /\ current_time > 0 /\ ~error
    /\ Unclaimed # {}
    /\ \E i, j \in 1..Len(drones) :
          /\ drones[i].target = NoTarget
          /\ drones[j].target # NoTarget
          /\ Len(trail[i]) > 1

\* ceil(n / d) for d >= 1
CeilDiv(n, d) == (n + d - 1) \div d

\* C37: with every drone created by step(), any two drones are created at
\* clock values at least drone_spawn_delay apart, whatever the flags
\* passed, and after n steps at most ceil(n / drone_spawn_delay) drones
\* have been created (drone_spawn_delay >= 1)
C37_SpawnSpacing ==
    /\ \A i, j \in 1..Len(spawn_times) :
          i < j => spawn_times[j] - spawn_times[i] >= drone_spawn_delay
    /\ drone_spawn_delay >= 1 =>
          Len(spawn_times) <= CeilDiv(current_time, drone_spawn_delay)

\* the first step() calls created no drone, a later one created the first
\* drone, the calls that asked for another one too early created none,
\* and the second drone was created exactly drone_spawn_delay later
C37_Witness ==
    /\ Len(spawn_times) = 2
    /\ spawn_times[1] > 0
    /\ spawn_times[2] = spawn_times[1] + drone_spawn_delay
    /\ drone_spawn_delay >= 2

\* the spawn point is an in-bounds walkable cell
SpawnWalkable == spawn_point \in Cells /\ grid[spawn_point] # "OBSTACLE"

\* C38: with an in-bounds walkable spawn point, every drone stands on an
\* in-bounds walkable cell, and every drone with a target has a non-empty
\* path that ends at the target and on which its position is the waypoint
\* before the next one: pos = path[idx - 1] of the source, path[idx] here
C38_OnPath ==
    SpawnWalkable =>
        \A i \in 1..Len(drones) :
            LET d == drones[i]
            IN  /\ d.pos \in Cells
                /\ grid[d.pos] # "OBSTACLE"
                /\ d.target # NoTarget =>
                      /\ Len(d.path) > 0
                      /\ d.path[Len(d.path)] = d.target
                      /\ d.current_waypoint_idx \in 1..Len(d.path)
                      /\ d.path[d.current_waypoint_idx] = d.pos

\* a drone on its way, past the first waypoint of its path and before the
\* last, and another drone that has just been given its path
C38_Witness ==
    /\ SpawnWalkable
    /\ \E i \in 1..Len(drones) :
          /\ drones[i].target # NoTarget
          /\ drones[i].current_waypoint_idx > 1
          /\ drones[i].current_waypoint_idx < Len(drones[i].path)
    /\ \E j \in 1..Len(drones) :
          /\ drones[j].target # NoTarget
          /\ drones[j].current_waypoint_idx = 1
          /\ Len(drones[j].path) > 1

\* the coordinates of a rescued list of (drone id, coordinate) pairs
RescuedCoords(rescued) == {rescued[k][2] : k \in DOMAIN rescued}

\* no value stands twice in the sequence
NoRepeat(seq) == \A a, b \in DOMAIN seq : seq[a] = seq[b] => a = b

\* C39: over a mission no coordinate is listed twice in the discovered
\* lists of the step logs, nor twice as the rescued coordinate of their
\* rescued lists: a step lists a coordinate once, every coordinate it
\* lists is new to discovered_survivors (rescued_survivors) and is in
\* that set afterwards, and the sets keep what they have
C39_ListedOnce ==
    [][step_log' # step_log =>
          /\ NoRepeat(step_log'.discovered)
          /\ Range(step_log'.discovered) \cap discovered_survivors = {}
          /\ Range(step_log'.discovered) \cup discovered_survivors
                \subseteq discovered_survivors'
          /\ NoRepeat([k \in DOMAIN step_log'.rescued |-> step_log'.rescued[k][2]])
          /\ RescuedCoords(step_log'.rescued) \cap rescued_survivors = {}
          /\ RescuedCoords(step_log'.rescued) \cup rescued_survivors
                \subseteq rescued_survivors']_vars

\* the last step() listed a survivor that two drones have within their
\* radius, and gave it to one of them as its target
C39_Witness ==
    /\ \E c \in Range(step_log.discovered) :
          \E i, j \in 1..Len(drones) :
              /\ i # j /\ c \in Sensed(drones[i].pos) /\ c \in Sensed(drones[j].pos)
              /\ drones[i].target = c

\* no waypoint of the drone's path is left to move to
Exhausted(d) == d.current_waypoint_idx >= Len(d.path)

\* C40: the path progress of a drone is never negative; a progress of 1.0
\* or more is found only on an exhausted path; a move_step call that
\* leaves such a progress has reached the end of the path in that call,
\* or, the path being exhausted before, has changed nothing; and
\* assign_target leaves the progress 0
C40_ProgressRange ==
    /\ [](/\ ~Less(drones[1].path_progress, Num(0))
          /\ ~Less(drones[1].path_progress, ONE) => Exhausted(drones[1]))
    /\ [][/\ (advances' # advances /\ ~Less(drones'[1].path_progress, ONE)) =>
                 \/ ~Exhausted(drones[1]) /\ Exhausted(drones'[1])
                 \/ drones' = drones
          /\ step_args' # step_args => drones'[1].path_progress = Num(0)]_vars

\* a drone of speed above 1 has ended its path with progress left over,
\* and the path it was given first has been replaced since
C40_Witness ==
    /\ ~Less(drones[1].path_progress, ONE)
    /\ Exhausted(drones[1])
    /\ Len(drones[1].path) > 0
    /\ drones[1].target = AssignGoal

====
